---- MODULE Spec2Model ----
(***************************************************************************)
(* Model of the Bedrock contract-processing server: the job map and job    *)
(* queue (modules/job_processing.py), the three consumers of the queue     *)
(* (worker loop, immediate-processing backup thread, debug queue handler   *)
(* of server.py), the pipeline process_document runs for a job, chunk      *)
(* prioritisation (modules/text_processing.py) and the Bedrock dispatcher  *)
(* with its retry loop (modules/bedrock_integration.py).                   *)
(***************************************************************************)
EXTENDS Integers, Sequences, FiniteSets, TLC

(***************************************************************************)
(* Bounds of the model.                                                    *)
(***************************************************************************)
\* number of jobs submitted in one behaviour
MaxJobs == 2

Jobs == 1..MaxJobs

(***************************************************************************)
(* Program constants.                                                      *)
(***************************************************************************)
\* chunk_size of the splitter and the single-chunk threshold
ChunkSize == 25000

\* cap on concurrent chunk calls: max_workers = min(total_chunks, 5)
ConcurrencyCap == 5

\* max_jobs of the debug queue handler
DebugMaxJobs == 5

\* retries parameter of _call_bedrock_with_retry
Retries == 3

\* backoff_time at the first failed attempt, in seconds
InitialBackoff == 1

\* separator of "\n\n".join(processed_chunks)
ParagraphSeparator == "\n\n"

(***************************************************************************)
(* Text helpers: Python str operations on TLA+ strings.                    *)
(***************************************************************************)
UpperLetters == "ABCDEFGHIJKLMNOPQRSTUVWXYZ"

LowerLetters == "abcdefghijklmnopqrstuvwxyz"

\* str.lower() on one character
LowerChar(c) ==
  IF \E i \in 1..Len(UpperLetters) : SubSeq(UpperLetters, i, i) = c
    THEN LET i == CHOOSE k \in 1..Len(UpperLetters) : SubSeq(UpperLetters, k, k) = c
         IN  SubSeq(LowerLetters, i, i)
    ELSE c

RECURSIVE Lower(_)
\* str.lower()
Lower(s) ==
  IF Len(s) = 0 THEN s
  ELSE LowerChar(SubSeq(s, 1, 1)) \o Lower(SubSeq(s, 2, Len(s)))

\* `sub in s`
Contains(sub, s) ==
  \E i \in 1..(Len(s) - Len(sub) + 1) : SubSeq(s, i, i + Len(sub) - 1) = sub

\* s.find(sub): 0-based position of the first occurrence, -1 when absent
Find(sub, s) ==
  IF Contains(sub, s)
    THEN (CHOOSE i \in 1..(Len(s) - Len(sub) + 1) :
            /\ SubSeq(s, i, i + Len(sub) - 1) = sub
            /\ \A k \in 1..(i - 1) : SubSeq(s, k, k + Len(sub) - 1) # sub) - 1
    ELSE -1

RECURSIVE JoinFrom(_, _, _)
JoinFrom(sep, parts, i) ==
  IF i > Len(parts) THEN ""
  ELSE IF i = Len(parts) THEN parts[i]
  ELSE parts[i] \o sep \o JoinFrom(sep, parts, i + 1)

\* sep.join(parts)
Join(sep, parts) == JoinFrom(sep, parts, 1)

RECURSIVE SumOver(_, _)
\* sum of f[x] over the finite set S
SumOver(f, S) ==
  IF S = {} THEN 0
  ELSE LET x == CHOOSE y \in S : TRUE IN f[x] + SumOver(f, S \ {x})

(***************************************************************************)
(* prioritize_chunks (modules/text_processing.py).                         *)
(***************************************************************************)
structure_markers ==
  << "section", "article", "clause", "paragraph",
     "parties", "agreement", "witnesseth", "whereas",
     "term", "termination", "payment", "services", "obligations",
     "governing law", "liability", "indemnification" >>

\* the points one target adds to a chunk's score
TargetScore(chunk, target) ==
  LET chunk_lower  == Lower(chunk)
      target_lower == Lower(target)
      target_pos   == Find(target_lower, chunk_lower)
      half         == Len(target_lower) \div 2
      first_half   == SubSeq(target_lower, 1, half)
      second_half  == SubSeq(target_lower, half + 1, Len(target_lower))
  IN  IF Contains(target_lower, chunk_lower)
        THEN 5 + (IF target_pos < Len(chunk) \div 3 THEN 2
                  ELSE IF target_pos < (Len(chunk) * 2) \div 3 THEN 1
                  ELSE 0)
      ELSE IF Len(target_lower) > 10
        THEN (IF Contains(first_half, chunk_lower) THEN 2 ELSE 0)
             + (IF Contains(second_half, chunk_lower) THEN 2 ELSE 0)
      ELSE 0

\* the score prioritize_chunks gives one chunk
ChunkScore(chunk, targets) ==
  LET chunk_lower == Lower(chunk)
  IN  SumOver([k \in 1..Len(targets) |-> TargetScore(chunk, targets[k])],
              1..Len(targets))
      + SumOver([m \in 1..Len(structure_markers) |->
                   IF Contains(structure_markers[m], chunk_lower) THEN 1 ELSE 0],
                1..Len(structure_markers))

\* a sort by ascending score
prioritized_indices_ascending(chunks, targets) ==
  LET n == Len(chunks)
      score == [i \in 1..n |-> ChunkScore(chunks[i], targets)]
      Before(k, i) == \/ score[k] < score[i]
                      \/ (score[k] = score[i] /\ k < i)
      Rank(i) == 1 + Cardinality({k \in 1..n : Before(k, i)})
  IN  [p \in 1..n |-> CHOOSE i \in 1..n : Rank(i) = p]

\* chunk_scores.sort(key=lambda x: (-x[1], x[0])): the original (1-based)
\* chunk indices in the sorted order
prioritized_indices(chunks, targets) ==
  LET n == Len(chunks)
      score == [i \in 1..n |-> ChunkScore(chunks[i], targets)]
      Before(k, i) == \/ score[k] > score[i]
                      \/ (score[k] = score[i] /\ k < i)
      Rank(i) == 1 + Cardinality({k \in 1..n : Before(k, i)})
  IN  [p \in 1..n |-> CHOOSE i \in 1..n : Rank(i) = p]

\* a reordering that puts the best-scored chunk at every position
prioritize_chunks_best_only(chunks, targets) ==
  LET order == prioritized_indices(chunks, targets)
  IN  [p \in 1..Len(chunks) |-> chunks[order[1]]]

\* prioritize_chunks(chunks, targets)
prioritize_chunks(chunks, targets) ==
  LET order == prioritized_indices(chunks, targets)
  IN  [p \in 1..Len(chunks) |-> chunks[order[p]]]

(***************************************************************************)
(* The de-duplication pass that ends find_instruction_targets              *)
(* (modules/text_processing.py, lines 187-202).                            *)
(***************************************************************************)
\* lines 191-196: target is contained in, or contains, a retained target
is_duplicate(target, unique) ==
  \E k \in 1..Len(unique) :
     Contains(target, unique[k]) \/ Contains(unique[k], target)

RECURSIVE DedupFrom(_, _, _)
\* the loop of lines 189-199 from targets[i] on, `unique` being the
\* unique_targets list built so far
DedupFrom(targets, i, unique) ==
  IF i > Len(targets) THEN unique
  ELSE DedupFrom(targets, i + 1,
                 IF is_duplicate(targets[i], unique) THEN unique
                 ELSE Append(unique, targets[i]))

\* a pass that drops only the first duplicate it meets
unique_targets_first_duplicate_only(targets) ==
  LET dup == { i \in 1..Len(targets) :
                 is_duplicate(targets[i], SubSeq(targets, 1, i - 1)) }
  IN  IF dup = {} THEN targets
      ELSE LET d == CHOOSE i \in dup : \A k \in dup : i <= k
           IN  SubSeq(targets, 1, d - 1) \o SubSeq(targets, d + 1, Len(targets))

\* unique_targets as find_instruction_targets returns it for the collected
\* list `targets`
unique_targets(targets) == DedupFrom(targets, 1, << >>)

(***************************************************************************)
(* RecursiveCharacterTextSplitter(chunk_size=25000, chunk_overlap=5000,    *)
(* separators=["\n\n", ...]).split_text as process_document uses it        *)
(* (modules/job_processing.py, lines 186-193).  A document is the list of  *)
(* the lengths of its paragraphs (each shorter than chunk_size, so the     *)
(* splitter cuts at "\n\n" only); a text is the list of the numbers of     *)
(* the paragraphs it consists of, joined by "\n\n".                        *)
(***************************************************************************)
ChunkOverlap == 5000

\* the paragraphs i..k of a document, as a text
ParagraphRange(i, k) == [p \in 1..(k - i + 1) |-> i + p - 1]

\* len() of the text made of the paragraphs `text` of a document
TextLength(paragraphs, text) ==
  SumOver([p \in 1..Len(text) |-> paragraphs[text[p]]], 1..Len(text))
  + (IF Len(text) > 1 THEN (Len(text) - 1) * Len(ParagraphSeparator) ELSE 0)

\* len(separator) when the list is not empty
SeparatorAfter(current_doc) ==
  IF Len(current_doc) > 0 THEN Len(ParagraphSeparator) ELSE 0

RECURSIVE PopOverlap(_, _, _, _)
\* the `while total > chunk_overlap or ...` loop that drops paragraphs from
\* the front of the chunk just emitted; what stays opens the next chunk
PopOverlap(paragraphs, current_doc, total, len) ==
  IF \/ total > ChunkOverlap
     \/ (total + len + SeparatorAfter(current_doc) > ChunkSize /\ total > 0)
    THEN PopOverlap(paragraphs, Tail(current_doc),
                    total - (paragraphs[Head(current_doc)]
                             + (IF Len(current_doc) > 1
                                  THEN Len(ParagraphSeparator) ELSE 0)),
                    len)
    ELSE [ current_doc |-> current_doc, total |-> total ]

RECURSIVE MergeSplits(_, _, _, _, _)
\* the loop that merges the paragraphs d.. into chunks of at most chunk_size
MergeSplits(paragraphs, d, current_doc, total, docs) ==
  IF d > Len(paragraphs)
    THEN IF current_doc # << >> THEN Append(docs, current_doc) ELSE docs
  ELSE IF /\ total + paragraphs[d] + SeparatorAfter(current_doc) > ChunkSize
          /\ Len(current_doc) > 0
    THEN LET kept == PopOverlap(paragraphs, current_doc, total, paragraphs[d])
         IN  MergeSplits(paragraphs, d + 1, Append(kept.current_doc, d),
                         kept.total + paragraphs[d] + SeparatorAfter(kept.current_doc),
                         Append(docs, current_doc))
  ELSE MergeSplits(paragraphs, d + 1, Append(current_doc, d),
                   total + paragraphs[d] + SeparatorAfter(current_doc), docs)

\* text_splitter.split_text(document_content)
split_text(paragraphs) == MergeSplits(paragraphs, 1, << >>, 0, << >>)

RECURSIVE JoinTexts(_, _)
\* "\n\n".join(texts[i:]) for texts given as paragraph lists
JoinTexts(texts, i) ==
  IF i > Len(texts) THEN << >> ELSE texts[i] \o JoinTexts(texts, i + 1)

(***************************************************************************)
(* process_html_with_model (modules/pdf_utils.py, lines 143-247) on        *)
(* strings.  A TLA+ string cannot hold the backquote, so the markdown code *)
(* fence of lines 154-157 is written with the three characters of Fence.   *)
(***************************************************************************)
Fence == "~~~"

\* the characters str.strip() removes
Whitespace == { " ", "\n", "\t" }

\* s.startswith(prefix)
StartsWith(prefix, s) ==
  Len(s) >= Len(prefix) /\ SubSeq(s, 1, Len(prefix)) = prefix

\* s.endswith(suffix)
EndsWith(suffix, s) ==
  Len(s) >= Len(suffix) /\ SubSeq(s, Len(s) - Len(suffix) + 1, Len(s)) = suffix

\* s.strip()
Strip(s) ==
  LET solid == { i \in 1..Len(s) : SubSeq(s, i, i) \notin Whitespace }
  IN  IF solid = {} THEN ""
      ELSE SubSeq(s, CHOOSE i \in solid : \A k \in solid : i <= k,
                     CHOOSE i \in solid : \A k \in solid : i >= k)

\* lines 149-158: the response without wrapping quotes and code fences
CleanResponse(model_response) ==
  LET stripped == Strip(model_response)
      unquoted == IF StartsWith("\"", stripped) /\ EndsWith("\"", stripped)
                    THEN SubSeq(stripped, 2, Len(stripped) - 1)
                    ELSE stripped
      opened   == IF StartsWith(Fence \o "html", unquoted)
                    THEN SubSeq(unquoted, 8, Len(unquoted))
                    ELSE unquoted
      closed   == IF EndsWith(Fence, opened)
                    THEN SubSeq(opened, 1, Len(opened) - 3)
                    ELSE opened
  IN  Strip(closed)

\* lines 161-162: the response is HTML already
IsHtmlResponse(cleaned_response) ==
  \/ Contains("<!DOCTYPE", cleaned_response)
  \/ Contains("<html", cleaned_response)
  \/ (Contains("<div", cleaned_response) /\ Contains("</div>", cleaned_response))

\* lines 169-184: the document structure put around body content
WrapInDocument(cleaned_response) ==
  "<!DOCTYPE html>\n<html>\n<head>\n    <style>\n"
  \o "        body { font-family: Times New Roman, serif; font-size: 11pt; line-height: 1.5; }\n"
  \o "        .section { margin-top: 10px; margin-bottom: 10px; }\n"
  \o "        .signature { margin-top: 20px; margin-bottom: 20px; }\n"
  \o "        .heading { font-weight: bold; }\n"
  \o "        .indent { margin-left: 20px; }\n"
  \o "        .clause { margin-top: 10px; margin-bottom: 10px; }\n"
  \o "        .paragraph { margin-top: 6px; margin-bottom: 6px; }\n"
  \o "    </style>\n</head>\n<body>\n" \o cleaned_response \o "\n</body>\n</html>"

\* lines 166-187: the HTML response as it is returned
UseHtmlResponse(cleaned_response) ==
  IF ~StartsWith("<!DOCTYPE", cleaned_response) /\ ~StartsWith("<html", cleaned_response)
    THEN WrapInDocument(cleaned_response)
    ELSE cleaned_response

RECURSIVE Concat(_, _, _)
\* ''.join(parts[lo..hi])
Concat(parts, lo, hi) ==
  IF lo > hi THEN ""
  ELSE IF lo = hi THEN parts[lo]
  ELSE LET mid == (lo + hi) \div 2
       IN  Concat(parts, lo, mid) \o Concat(parts, mid + 1, hi)

\* BeautifulSoup(html_content, 'html.parser').get_text(): the characters
\* outside tags
get_text(html_content) ==
  LET n == Len(html_content)
      InTag(i) ==
        \/ SubSeq(html_content, i, i) = "<"
        \/ \E k \in 1..(i - 1) :
             /\ SubSeq(html_content, k, k) = "<"
             /\ \A m \in (k + 1)..(i - 1) : SubSeq(html_content, m, m) # ">"
  IN  Concat([i \in 1..n |-> IF InTag(i) THEN "" ELSE SubSeq(html_content, i, i)], 1, n)

\* a check that never finds the response too short
IsTooShortNever(cleaned_response, original_text) == FALSE

\* line 201: len(cleaned_response) < len(original_text) * 0.3
IsTooShort(cleaned_response, original_text) ==
  10 * Len(cleaned_response) < 3 * Len(original_text)

RECURSIVE SplitParagraphs(_)
\* cleaned_response.split('\n\n')
SplitParagraphs(text) ==
  LET at == Find(ParagraphSeparator, text)
  IN  IF at < 0 THEN << text >>
      ELSE << SubSeq(text, 1, at) >>
           \o SplitParagraphs(SubSeq(text, at + Len(ParagraphSeparator) + 1, Len(text)))

\* some character of s is a lower-case letter
HasLowerLetter(s) ==
  \E i \in 1..Len(s) : Contains(SubSeq(s, i, i), LowerLetters)

\* some character of s is an upper-case letter
HasUpperLetter(s) ==
  \E i \in 1..Len(s) : Contains(SubSeq(s, i, i), UpperLetters)

\* len(s.split())
WordCount(s) ==
  Cardinality({ i \in 1..Len(s) :
                  /\ SubSeq(s, i, i) \notin Whitespace
                  /\ (i = 1 \/ SubSeq(s, i - 1, i - 1) \in Whitespace) })

\* line 224: the markers of a signature block
signature_markers == << "signature", "signed by", "dated", "by:", "name:", "title:" >>

\* lines 218-238: the element built for one paragraph
NewElement(para) ==
  IF ~HasLowerLetter(para) /\ WordCount(para) <= 5
    THEN "<h1 class=\"heading\" style=\"text-align: center;\">" \o para \o "</h1>"
  ELSE IF \/ EndsWith(":", para)
          \/ (HasUpperLetter(para) /\ ~HasLowerLetter(para) /\ WordCount(para) <= 8)
    THEN "<h2 class=\"heading\">" \o para \o "</h2>"
  ELSE IF \E m \in 1..Len(signature_markers) : Contains(signature_markers[m], Lower(para))
    THEN "<div class=\"signature\">" \o para \o "</div>"
  ELSE IF /\ Contains(SubSeq(para, 1, 1), "123456789")
          /\ Contains(".", SubSeq(para, 1, IF Len(para) < 10 THEN Len(para) ELSE 10))
    THEN "<div class=\"clause\">" \o para \o "</div>"
  ELSE IF StartsWith("    ", para) \/ StartsWith("\t", para)
    THEN "<div class=\"indent\">" \o para \o "</div>"
  ELSE "<div class=\"paragraph\">" \o para \o "</div>"

RECURSIVE BodyElements(_, _)
\* lines 212-238: the elements appended for paragraphs[i:], empty ones skipped
BodyElements(paragraphs, i) ==
  IF i > Len(paragraphs) THEN ""
  ELSE LET para == Strip(paragraphs[i])
       IN  (IF para = "" THEN "" ELSE NewElement(para)) \o BodyElements(paragraphs, i + 1)

\* lines 206-240: str(soup) after the body was cleared and refilled; a
\* document without a body element is left as it was
RebuildBody(html_content, cleaned_response) ==
  IF Contains("<body>", html_content) /\ Contains("</body>", html_content)
    THEN SubSeq(html_content, 1, Find("<body>", html_content) + Len("<body>"))
         \o BodyElements(SplitParagraphs(cleaned_response), 1)
         \o SubSeq(html_content, Find("</body>", html_content) + 1, Len(html_content))
    ELSE html_content

\* lines 146-242: the body of the try block
html_with_model_changes(html_content, model_response) ==
  LET cleaned_response == CleanResponse(model_response)
  IN  IF IsHtmlResponse(cleaned_response) THEN UseHtmlResponse(cleaned_response)
      ELSE IF IsTooShort(cleaned_response, get_text(html_content)) THEN html_content
      ELSE RebuildBody(html_content, cleaned_response)

(***************************************************************************)
(* Submitted documents.  A document carries len(document_content) as a     *)
(* number (the texts themselves are abbreviated), the chunk list           *)
(* text_splitter.split_text returns for it, and the target_sections        *)
(* process_document collects for the instruction.                          *)
(***************************************************************************)
\* under the threshold, HTML longer than the flat text: one HTML chunk
DocSmall ==
  [ length |-> 1200, document_content |-> "Fee 5", html_content |-> "<p>Fee 5</p>",
    html_length |-> 1900, split |-> << "Fee 5" >>, target_sections |-> << "Fee" >> ]

\* over the threshold, two chunks: processed in splitter order
DocTwo ==
  [ length |-> 31000, document_content |-> "", html_content |-> "",
    html_length |-> 52000, split |-> << "intro ABC", "term x" >>,
    target_sections |-> << "ABC" >> ]

\* over the threshold, three chunks, the target in the last one
DocThree ==
  [ length |-> 60000, document_content |-> "", html_content |-> "",
    html_length |-> 90000, split |-> << "intro", "term x", "pay ABC" >>,
    target_sections |-> << "ABC" >> ]

\* over the threshold, six chunks and no target section: one chunk more than
\* the executor has workers
DocSix ==
  [ length |-> 140000, document_content |-> "", html_content |-> "",
    html_length |-> 200000, split |-> << "c1", "c2", "c3", "c4", "c5", "c6" >>,
    target_sections |-> << >> ]

Documents == { DocSmall, DocTwo, DocThree, DocSix }

NoDocument == [ length |-> 0 ]

\* the chunk list process_document hands to the executor (lines 193-211)
ChunksOf(doc) ==
  IF doc.length < ChunkSize
    THEN IF doc.html_content # "" /\ doc.html_length > doc.length
           THEN << doc.html_content >>
           ELSE << doc.document_content >>
  ELSE IF Len(doc.split) <= 2 THEN doc.split
  ELSE IF doc.target_sections # << >>
    THEN prioritize_chunks(doc.split, doc.target_sections)
  ELSE doc.split

\* ChunksOf, tabulated once for the submitted documents
ChunkLists == [doc \in Documents |-> ChunksOf(doc)]

\* the text_generation_pipeline argument process_chunk receives:
\* process_document calls process_chunk_with_change_detection without it, so
\* the parameter keeps its default, None
text_generation_pipeline == [ callable |-> FALSE, generated_text |-> "" ]

\* what a chunk call yields: the text and the changed flag it returns, or
\* the message of the exception it raises; bedrock_calls counts the Bedrock
\* invoke_model calls made on the way
ChunkReturn(text, changed) ==
  [ result |-> text, changed |-> changed, raised |-> FALSE, error |-> "",
    bedrock_calls |-> 0 ]

\* a test that takes only the empty text for a short response
IsShortResponseEmptyOnly(generated_text) == generated_text = ""

\* `not generated_text or len(generated_text) < 10`
IsShortResponse(generated_text) == generated_text = "" \/ Len(generated_text) < 10

\* a handler that gives back an empty text for a chunk whose call failed
process_chunk_dropping(chunk, pipeline) ==
  IF ~pipeline.callable THEN ChunkReturn("", FALSE)
  ELSE IF IsShortResponse(pipeline.generated_text) THEN ChunkReturn(chunk, FALSE)
  ELSE ChunkReturn(pipeline.generated_text, TRUE)

\* process_chunk of modules/text_processing.py: calling None raises TypeError
\* inside the try block, and the handler returns the chunk unchanged; a
\* callable pipeline is the local text-generation pipeline.  The function
\* never reaches bedrock_client
process_chunk(chunk, pipeline) ==
  IF ~pipeline.callable THEN ChunkReturn(chunk, FALSE)
  ELSE IF IsShortResponse(pipeline.generated_text) THEN ChunkReturn(chunk, FALSE)
  ELSE ChunkReturn(pipeline.generated_text, TRUE)

\* process_chunk_with_change_detection: forwards, and catches what is raised
process_chunk_with_change_detection(chunk, pipeline) ==
  LET r == process_chunk(chunk, pipeline)
  IN  IF r.raised THEN [ChunkReturn(chunk, FALSE) EXCEPT !.bedrock_calls = r.bedrock_calls]
      ELSE r

\* a progress that divides in integers before it scales
progress_pct_integer_division(completed, total_chunks) ==
  40 + (completed \div total_chunks) * 30

\* progress_pct = 40 + int(completed / total_chunks * 30)
progress_pct(completed, total_chunks) == 40 + (completed * 30) \div total_chunks

(***************************************************************************)
(* State.                                                                  *)
(***************************************************************************)
VARIABLES
  job_results,           \* the job map: status, progress, response, pdf_base64
  job_queue,             \* queue.Queue of submitted jobs (by job id)
  input,                 \* the document submitted with each job
  file_exists,           \* whether a job's uploaded file is on disk
  pdf_files,             \* per job: files in generated_pdfs written for it
  thread_alive,          \* processing_thread.is_alive()
  aws_credentials_valid, \* whether Bedrock accepts the configured credentials
  threads,               \* worker, backup and debug threads: position and locals
  debug,                 \* the /debug/process_queue handler and its closure cell
  taken_by,              \* per job: the consumer whose get() returned it
  runs,                  \* per job: how often process_document was entered
  bedrock_calls,         \* per job: Bedrock invocations made by its pipeline
  call,                  \* one _call_bedrock_with_retry call
  chunk_call,            \* one process_chunk call: its arguments and its result
  prio_call,             \* one prioritize_chunks call: its arguments and its result
  dedup_call,            \* the de-duplication pass run once and run on its own output
  split_call,            \* one document split into chunks and joined again
  html_call,             \* one process_html_with_model call on the plain-text path
  warmup,                \* the ModelWarmupScheduler, its thread and the clock
  proc_call,             \* one process_with_bedrock call
  model_call,            \* one invoke_mistral_model call under its error handler
  stat_calls,            \* concurrent send_warmup_request calls and the counters
  sched                  \* a scheduler under start() and stop(), and its worker loops

\* the state of the function calls examined on their own
fnVars == << chunk_call, prio_call, dedup_call, split_call, html_call, warmup,
            proc_call, model_call, stat_calls, sched >>

\* everything but the function calls dedup_call .. model_call
serverVars == << job_results, job_queue, input, file_exists, pdf_files, thread_alive,
                aws_credentials_valid, threads, debug, taken_by, runs, bedrock_calls,
                call, chunk_call, prio_call, stat_calls, sched >>

\* the later function calls
laterCalls == << dedup_call, split_call, html_call, warmup, proc_call, model_call,
                stat_calls, sched >>

vars == << job_results, job_queue, input, file_exists, pdf_files, thread_alive,
           aws_credentials_valid, threads, debug, taken_by, runs, bedrock_calls,
           call, fnVars >>

jobVars == << job_results, job_queue, input, file_exists, pdf_files, thread_alive,
              threads, debug, taken_by, runs, bedrock_calls >>

Worker == << "worker", 0 >>

Immediate(j) == << "immediate", j >>

Background(j) == << "background", j >>

ThreadIds == { Worker } \cup { Immediate(j) : j \in Jobs } \cup { Background(j) : j \in Jobs }

AbsentJob == [ status |-> "absent", progress |-> 0, response |-> "", pdf_base64 |-> "" ]

\* job_results[job_id] = {'status': 'queued', 'progress': 0, ...}
QueuedJob == [ status |-> "queued", progress |-> 0, response |-> "", pdf_base64 |-> "" ]

IdleThread ==
  [ pc |-> "none", job |-> 0, chunks |-> << >>, started |-> {}, finished |-> {},
    collected |-> {}, processed_chunks |-> << >>, combined_response |-> "",
    html_error |-> FALSE, processed_html |-> "", rendered |-> "none",
    pdf_path |-> FALSE ]

\* last_exception = None
NoException == [ class |-> "none", message |-> "None" ]

NoCall ==
  [ pc |-> "idle", attempt |-> 0, backoff_time |-> 0, last_exception |-> NoException,
    invocations |-> 0, sleeps |-> << >>, outcomes |-> << >>, result |-> "None" ]

JobInit ==
  /\ job_results = [j \in Jobs |-> AbsentJob]
  /\ job_queue = << >>
  /\ input = [j \in Jobs |-> NoDocument]
  /\ file_exists = [j \in Jobs |-> FALSE]
  /\ pdf_files = [j \in Jobs |-> 0]
  /\ thread_alive \in BOOLEAN
  /\ threads = [t \in ThreadIds |->
                  IF t = Worker /\ thread_alive THEN [IdleThread EXCEPT !.pc = "idle"]
                  ELSE IdleThread]
  /\ debug = [ active |-> FALSE, processed_count |-> 0, started |-> {} ]
  /\ taken_by = [j \in Jobs |-> "nobody"]
  /\ runs = [j \in Jobs |-> 0]
  /\ bedrock_calls = [j \in Jobs |-> 0]

\* no process_chunk call has been made
NoChunkCall ==
  [ pc |-> "idle", via |-> "none", chunk |-> "", dispatch_raised |-> FALSE,
    generated_text |-> "", result |-> "", changed |-> FALSE, raised |-> FALSE ]

\* no prioritize_chunks call has been made
NoPrioCall == [ pc |-> "idle", chunks |-> << >>, targets |-> << >>, result |-> << >> ]

\* the de-duplication pass has not run
NoDedupCall == [ pc |-> "idle", targets |-> << >>, result |-> << >>, again |-> << >> ]

\* no document has been split
NoSplitCall == [ pc |-> "idle", paragraphs |-> << >>, chunks |-> << >>,
                 combined_response |-> << >> ]

\* process_html_with_model has not been called
NoHtmlCall == [ pc |-> "idle", html_content |-> "", model_response |-> "",
                internal_error |-> FALSE, result |-> "" ]

\* warmup_stats = {'total_warmups': 0, ...}
NoWarmups ==
  [ total_warmups |-> 0, successful_warmups |-> 0, failed_warmups |-> 0,
    last_warmup_success |-> "None" ]

\* warmup_scheduler = None: no scheduler object, no worker thread; `now` is
\* the clock in seconds
NoScheduler ==
  [ pc |-> "none", is_running |-> FALSE, last_real_request |-> 0,
    warmup_stats |-> NoWarmups, worker_threads |-> 0,
    worker |-> [ pc |-> "none", wake_at |-> 0 ],
    now |-> 0, ticks |-> 0, start_calls |-> 0, trigger_calls |-> 0,
    last_send |-> [ by |-> "none", returned |-> FALSE, raised |-> FALSE ],
    last_check |-> [ elapsed |-> 0, sent |-> FALSE ] ]

\* the value process_with_bedrock has not returned yet
NoResult == [ keys |-> {}, error |-> FALSE, response |-> "", pdf_base64 |-> "",
              pdf_path |-> "", message |-> "" ]

\* process_with_bedrock has not been called
NoProcCall ==
  [ pc |-> "idle", extraction |-> "none", html_content |-> "", chunks |-> << >>,
    outcomes |-> << >>, processed_chunks |-> << >>, combined_html |-> "",
    pdf |-> "", exception |-> "", result |-> NoResult, raised |-> FALSE ]

\* invoke_mistral_model of bedrock_integration/client.py has not been called
NoModelCall ==
  [ pc |-> "idle", primary |-> "", modelId |-> "", retry_count |-> 0,
    invoked |-> << >>, outcomes |-> << >>, sleeps |-> << >>, result |-> "" ]

MaxLoops == 3

MaxPasses == 2

\* the callers of send_warmup_request: start() at server start-up, the
\* warmup_worker loop and the /warmup/trigger handler
WarmupCallers == { "startup", "worker", "trigger" }

\* no send_warmup_request call was made: the counters of __init__
NoStatCalls ==
  [ warmup_stats |-> [ total_warmups |-> 0, successful_warmups |-> 0,
                       failed_warmups |-> 0 ],
    callers |-> [ c \in WarmupCallers |->
                    [ pc |-> "idle", outcome |-> "", key |-> "", loaded |-> 0,
                      calls |-> 0 ] ],
    attempts |-> 0 ]

\* a scheduler after __init__: not running, no thread; worker_loops holds
\* the position of every warmup_worker thread start() may create
NoLoops ==
  [ is_running |-> FALSE, warmup_thread |-> 0, stop_pc |-> "idle",
    worker_loops |-> [ k \in 1..MaxLoops |-> [ pc |-> "unborn", passes |-> 0 ] ],
    start_calls |-> 0, stop_calls |-> 0 ]

Init ==
  /\ JobInit
  /\ aws_credentials_valid \in BOOLEAN
  /\ call = NoCall
  /\ chunk_call = NoChunkCall
  /\ prio_call = NoPrioCall
  /\ dedup_call = NoDedupCall
  /\ split_call = NoSplitCall
  /\ html_call = NoHtmlCall
  /\ warmup = NoScheduler
  /\ proc_call = NoProcCall
  /\ model_call = NoModelCall
  /\ stat_calls = NoStatCalls
  /\ sched = NoLoops

(***************************************************************************)
(* ModelWarmupScheduler (modules/warmup_scheduler.py).  Times are seconds. *)
(***************************************************************************)
\* warmup_interval_minutes=15 of server.py, line 53, times 60
warmup_interval == 15 * 60

\* time.sleep(30) before the periodic schedule starts
InitialDelay == 30

\* time.sleep(60) after an error in the worker loop
ErrorDelay == 60

\* update_last_request_time() of the module: `if warmup_scheduler:` the
\* scheduler's last_real_request becomes datetime.now()
update_last_request_time(w) ==
  IF w.pc = "none" THEN w ELSE [w EXCEPT !.last_real_request = w.now]

\* a check that waits for the whole interval
should_warmup_full_interval(w) ==
  (w.now - w.last_real_request) > warmup_interval

\* should_warmup(): time_since_last_request.total_seconds() >
\* warmup_interval * 0.8
should_warmup(w) ==
  10 * (w.now - w.last_real_request) > 8 * warmup_interval

\* the outcomes of _call_bedrock_with_retry inside send_warmup_request
WarmupOutcomes == { "response", "error" }

\* a send_warmup_request without its except clause
send_warmup_request_raising(w, outcome, by) ==
  IF outcome = "response"
    THEN [w EXCEPT !.warmup_stats.total_warmups = @ + 1,
                   !.warmup_stats.successful_warmups = @ + 1,
                   !.warmup_stats.last_warmup_success = "True",
                   !.last_send = [ by |-> by, returned |-> TRUE, raised |-> FALSE ]]
    ELSE [w EXCEPT !.last_send = [ by |-> by, returned |-> FALSE, raised |-> TRUE ]]

\* send_warmup_request(): the scheduler after the call; last_send holds the
\* value returned and whether an exception left the method
send_warmup_request(w, outcome, by) ==
  IF outcome = "response"
    THEN [w EXCEPT !.warmup_stats.total_warmups = @ + 1,
                   !.warmup_stats.successful_warmups = @ + 1,
                   !.warmup_stats.last_warmup_success = "True",
                   !.last_send = [ by |-> by, returned |-> TRUE, raised |-> FALSE ]]
    ELSE [w EXCEPT !.warmup_stats.total_warmups = @ + 1,
                   !.warmup_stats.failed_warmups = @ + 1,
                   !.warmup_stats.last_warmup_success = "False",
                   !.last_send = [ by |-> by, returned |-> FALSE, raised |-> FALSE ]]

\* a start() that sends the initial warm-up only when one is due
start_when_due(w, outcome) ==
  IF w.is_running THEN w
  ELSE LET running == [w EXCEPT !.is_running = TRUE]
           sent    == IF should_warmup(running)
                        THEN send_warmup_request(running, outcome, "start")
                        ELSE running
       IN  [sent EXCEPT !.worker_threads = @ + 1,
                        !.worker = [ pc |-> "initial_sleep",
                                     wake_at |-> w.now + InitialDelay ]]

\* start(): nothing when already running; otherwise the initial warm-up and
\* the worker thread, which begins with its 30 second delay.  An exception
\* leaving send_warmup_request leaves start() before the thread is created.
start(w, outcome) ==
  IF w.is_running THEN w
  ELSE LET running == [w EXCEPT !.is_running = TRUE]
           sent    == send_warmup_request(running, outcome, "start")
       IN  IF sent.last_send.raised THEN sent
           ELSE [sent EXCEPT !.worker_threads = @ + 1,
                             !.worker = [ pc |-> "initial_sleep",
                                          wake_at |-> w.now + InitialDelay ]]

\* ModelWarmupScheduler(warmup_interval_minutes): __init__
NewScheduler(w) ==
  [NoScheduler EXCEPT !.pc = "created", !.last_real_request = w.now,
                      !.now = w.now, !.ticks = w.ticks]

\* one pass of the `while self.is_running` loop of warmup_worker
warmup_worker_pass(w, outcome) ==
  LET checked == [w EXCEPT !.last_check = [ elapsed |-> w.now - w.last_real_request,
                                            sent |-> should_warmup(w) ]]
      sent    == IF should_warmup(w)
                   THEN send_warmup_request(checked, outcome, "worker")
                   ELSE checked
  IN  IF should_warmup(w) /\ sent.last_send.raised
        THEN [sent EXCEPT !.worker = [ pc |-> "error_sleep",
                                       wake_at |-> w.now + ErrorDelay ]]
        ELSE [sent EXCEPT !.worker = [ pc |-> "interval_sleep",
                                       wake_at |-> w.now + warmup_interval ]]

(***************************************************************************)
(* Submission: upload_document / process_text of server.py.                *)
(***************************************************************************)
NextJobId == Cardinality({j \in Jobs : job_results[j].status # "absent"}) + 1

\* The handler saves the file, creates the job entry, enqueues the job and,
\* when the processing thread is not alive, starts the backup thread.
Submit(j, doc) ==
  /\ j = NextJobId
  /\ j \in Jobs
  /\ job_results' = [job_results EXCEPT ![j] = QueuedJob]
  /\ input' = [input EXCEPT ![j] = doc]
  /\ file_exists' = [file_exists EXCEPT ![j] = TRUE]
  /\ job_queue' = Append(job_queue, j)
  /\ threads' = IF thread_alive THEN threads
                ELSE [threads EXCEPT ![Immediate(j)].pc = "imm_check"]
  /\ warmup' = update_last_request_time(warmup)
  /\ UNCHANGED << pdf_files, thread_alive, aws_credentials_valid, debug, taken_by, runs,
                  bedrock_calls, call, chunk_call, prio_call, dedup_call, split_call,
                  html_call, proc_call, model_call, stat_calls, sched >>

(***************************************************************************)
(* Consumers of the queue.                                                 *)
(***************************************************************************)
\* entering process_document(job_id, ...) on thread t
EnterProcessDocument(t, j) ==
  /\ threads' = [threads EXCEPT ![t] = [IdleThread EXCEPT !.pc = "pd_start", !.job = j]]
  /\ runs' = [runs EXCEPT ![j] = @ + 1]

\* the worker takes the next job only between two process_document calls
WorkerReady == threads[Worker].pc = "idle"

\* process_jobs: job_queue.get(timeout=1), then process_document
WorkerGet ==
  /\ thread_alive
  /\ WorkerReady
  /\ job_queue # << >>
  /\ job_queue' = Tail(job_queue)
  /\ taken_by' = [taken_by EXCEPT ![Head(job_queue)] = "worker"]
  /\ EnterProcessDocument(Worker, Head(job_queue))
  /\ UNCHANGED << job_results, input, file_exists, pdf_files, thread_alive,
                  aws_credentials_valid, debug, bedrock_calls, call, fnVars >>

\* process_immediately: `if not job_queue.empty()`
ImmediateCheck(j) ==
  /\ threads[Immediate(j)].pc = "imm_check"
  /\ threads' = [threads EXCEPT ![Immediate(j)].pc =
                   IF job_queue # << >> THEN "imm_get" ELSE "end"]
  /\ UNCHANGED << job_results, job_queue, input, file_exists, pdf_files, thread_alive,
                  aws_credentials_valid, debug, taken_by, runs, bedrock_calls, call, fnVars >>

\* process_immediately: job_queue.get(timeout=1) returns the head of the queue,
\* whichever job that is, and process_document runs for it
ImmediateGet(j) ==
  /\ threads[Immediate(j)].pc = "imm_get"
  /\ job_queue # << >>
  /\ job_queue' = Tail(job_queue)
  /\ taken_by' = [taken_by EXCEPT ![Head(job_queue)] = "immediate"]
  /\ EnterProcessDocument(Immediate(j), Head(job_queue))
  /\ UNCHANGED << job_results, input, file_exists, pdf_files, thread_alive,
                  aws_credentials_valid, debug, bedrock_calls, call, fnVars >>

\* process_immediately: the queue was emptied after the check, get times out
\* with queue.Empty and the handler marks the submitted job as failed
ImmediateEmpty(j) ==
  /\ threads[Immediate(j)].pc = "imm_get"
  /\ job_queue = << >>
  /\ job_results' = [job_results EXCEPT ![j].status = "error"]
  /\ threads' = [threads EXCEPT ![Immediate(j)].pc = "end"]
  /\ UNCHANGED << job_queue, input, file_exists, pdf_files, thread_alive,
                  aws_credentials_valid, debug, taken_by, runs, bedrock_calls, call, fnVars >>

\* a request to /debug/process_queue arrives
DebugRequest ==
  /\ ~debug.active
  /\ job_queue # << >>
  /\ debug' = [ active |-> TRUE, processed_count |-> 0, started |-> {} ]
  /\ UNCHANGED << job_results, job_queue, input, file_exists, pdf_files, thread_alive,
                  aws_credentials_valid, threads, taken_by, runs, bedrock_calls, call, fnVars >>

\* one iteration of the handler's loop: job_queue.get assigns the handler's
\* local job_id, which every process_in_background closure of this request
\* shares, and a new background thread is started
DebugDequeue ==
  /\ debug.active
  /\ job_queue # << >>
  /\ debug.processed_count < DebugMaxJobs
  /\ LET j == Head(job_queue)
         unread == {t \in debug.started : threads[t].pc = "bg_start"}
     IN  /\ job_queue' = Tail(job_queue)
         /\ taken_by' = [taken_by EXCEPT ![j] = "debug"]
         /\ threads' = [t \in ThreadIds |->
                          IF t = Background(j) \/ t \in unread
                            THEN [threads[t] EXCEPT !.pc = "bg_start", !.job = j]
                            ELSE threads[t]]
         /\ debug' = [debug EXCEPT !.processed_count = @ + 1,
                                   !.started = @ \cup {Background(j)}]
  /\ UNCHANGED << job_results, input, file_exists, pdf_files, thread_alive,
                  aws_credentials_valid, runs, bedrock_calls, call, fnVars >>

\* the loop condition fails and the handler returns
DebugReturn ==
  /\ debug.active
  /\ (job_queue = << >> \/ debug.processed_count >= DebugMaxJobs)
  /\ debug' = [debug EXCEPT !.active = FALSE, !.started = {}]
  /\ UNCHANGED << job_results, job_queue, input, file_exists, pdf_files, thread_alive,
                  aws_credentials_valid, threads, taken_by, runs, bedrock_calls, call, fnVars >>

\* process_in_background evaluates job_id, instruction, file_path when it
\* calls process_document: it reads the closure cell as it is then
BackgroundRun(j) ==
  /\ threads[Background(j)].pc = "bg_start"
  /\ EnterProcessDocument(Background(j), threads[Background(j)].job)
  /\ UNCHANGED << job_results, job_queue, input, file_exists, pdf_files, thread_alive,
                  aws_credentials_valid, debug, taken_by, bedrock_calls, call, fnVars >>

(***************************************************************************)
(* process_document (modules/job_processing.py), one action per stage.     *)
(***************************************************************************)
\* a worker loop that ends when process_document returns
AfterReturnStopped(t) == [IdleThread EXCEPT !.pc = "end"]

\* the thread when process_document has returned: the worker is back at
\* the head of its loop, the other threads end; the locals are gone
AfterReturn(t) == [IdleThread EXCEPT !.pc = IF t = Worker THEN "idle" ELSE "end"]

\* line 70
PdStart(t) ==
  /\ threads[t].pc = "pd_start"
  /\ job_results' = [job_results EXCEPT ![threads[t].job].status = "processing"]
  /\ threads' = [threads EXCEPT ![t].pc = "pd_start_10"]
  /\ UNCHANGED << job_queue, input, file_exists, pdf_files, thread_alive,
                  aws_credentials_valid, debug, taken_by, runs, bedrock_calls, call, fnVars >>

\* line 71
PdStartProgress(t) ==
  /\ threads[t].pc = "pd_start_10"
  /\ job_results' = [job_results EXCEPT ![threads[t].job].progress = 10]
  /\ threads' = [threads EXCEPT ![t].pc = "pd_extract"]
  /\ UNCHANGED << job_queue, input, file_exists, pdf_files, thread_alive,
                  aws_credentials_valid, debug, taken_by, runs, bedrock_calls, call, fnVars >>

\* lines 78-116: reading a file that is no longer on disk raises to the outer
\* handler; only the structured PDF extraction writes progress 30
PdExtract(t) ==
  /\ threads[t].pc = "pd_extract"
  /\ LET j == threads[t].job
     IN  IF ~file_exists[j]
           THEN /\ threads' = [threads EXCEPT ![t].pc = "pd_except"]
                /\ UNCHANGED job_results
           ELSE /\ threads' = [threads EXCEPT ![t].pc = "pd_40"]
                /\ \E structured \in BOOLEAN :
                     job_results' =
                       IF structured
                         THEN [job_results EXCEPT ![j].status = "processing",
                                                  ![j].progress = 30]
                         ELSE job_results
  /\ UNCHANGED << job_queue, input, file_exists, pdf_files, thread_alive,
                  aws_credentials_valid, debug, taken_by, runs, bedrock_calls, call, fnVars >>

\* lines 121-215: progress 40, then the chunk list and the result slots
Pd40(t) ==
  /\ threads[t].pc = "pd_40"
  /\ LET j == threads[t].job
         chunks == ChunkLists[input[j]]
     IN  /\ job_results' = [job_results EXCEPT ![j].status = "processing",
                                               ![j].progress = 40]
         /\ threads' = [threads EXCEPT
                          ![t].pc = "pd_chunks",
                          ![t].chunks = chunks,
                          ![t].processed_chunks = [i \in 1..Len(chunks) |-> "None"]]
  /\ UNCHANGED << job_queue, input, file_exists, pdf_files, thread_alive,
                  aws_credentials_valid, debug, taken_by, runs, bedrock_calls, call, fnVars >>

\* max_workers = min(total_chunks, 5)
max_workers(total_chunks) ==
  IF total_chunks < ConcurrencyCap THEN total_chunks ELSE ConcurrencyCap

\* process_chunk_worker: what the future of one chunk yields; an error whose
\* message names the credentials is re-raised, any other error gives the
\* chunk back unchanged
process_chunk_worker(chunk) ==
  LET r == process_chunk_with_change_detection(chunk, text_generation_pipeline)
  IN  IF ~r.raised THEN r
      ELSE IF \/ Contains("AWS Credentials Error", r.error)
              \/ Contains("security token", Lower(r.error))
        THEN r
      ELSE [ChunkReturn(chunk, FALSE) EXCEPT !.bedrock_calls = r.bedrock_calls]

\* an executor thread picks up the task of chunk i
ChunkStart(t, i) ==
  /\ threads[t].pc = "pd_chunks"
  /\ i \in 1..Len(threads[t].chunks)
  /\ i \notin threads[t].started
  /\ Cardinality(threads[t].started \ threads[t].finished)
       < max_workers(Len(threads[t].chunks))
  /\ threads' = [threads EXCEPT ![t].started = @ \cup {i}]
  /\ UNCHANGED << job_results, job_queue, input, file_exists, pdf_files, thread_alive,
                  aws_credentials_valid, debug, taken_by, runs, bedrock_calls, call, fnVars >>

\* process_chunk_worker returns for chunk i and its future completes
ChunkFinish(t, i) ==
  /\ threads[t].pc = "pd_chunks"
  /\ i \in threads[t].started \ threads[t].finished
  /\ threads' = [threads EXCEPT ![t].finished = @ \cup {i}]
  /\ bedrock_calls' = [bedrock_calls EXCEPT ![threads[t].job] =
                          @ + process_chunk_worker(threads[t].chunks[i]).bedrock_calls]
  /\ UNCHANGED << job_results, job_queue, input, file_exists, pdf_files, thread_alive,
                  aws_credentials_valid, debug, taken_by, runs, call, fnVars >>

\* a loop that stores every result in the first slot
ChunkCollect_first_slot(t, i) ==
  /\ threads[t].pc = "pd_chunks"
  /\ i \in threads[t].finished \ threads[t].collected
  /\ LET j == threads[t].job
         r == process_chunk_worker(threads[t].chunks[i])
         completed == Cardinality(threads[t].collected) + 1
     IN  /\ ~r.raised
         /\ job_results' =
               [job_results EXCEPT ![j].progress =
                  progress_pct(completed, Len(threads[t].chunks))]
         /\ threads' = [threads EXCEPT
                          ![t].collected = @ \cup {i},
                          ![t].processed_chunks[1] = r.result]
  /\ UNCHANGED << job_queue, input, file_exists, pdf_files, thread_alive,
                  aws_credentials_valid, debug, taken_by, runs, bedrock_calls, call, fnVars >>

\* lines 248-272: the as_completed loop takes a completed future, stores its
\* result at the index it was submitted with and updates the progress; a
\* future that raised marks the job failed and re-raises
ChunkCollect(t, i) ==
  /\ threads[t].pc = "pd_chunks"
  /\ i \in threads[t].finished \ threads[t].collected
  /\ LET j == threads[t].job
         r == process_chunk_worker(threads[t].chunks[i])
         completed == Cardinality(threads[t].collected) + 1
     IN  IF r.raised
           THEN /\ job_results' = [job_results EXCEPT ![j].status = "error",
                                                      ![j].progress = 100]
                /\ threads' = [threads EXCEPT ![t].pc = "pd_except"]
           ELSE /\ job_results' =
                     [job_results EXCEPT ![j].progress =
                        progress_pct(completed, Len(threads[t].chunks))]
                /\ threads' = [threads EXCEPT
                                 ![t].collected = @ \cup {i},
                                 ![t].processed_chunks[i] = r.result]
  /\ UNCHANGED << job_queue, input, file_exists, pdf_files, thread_alive,
                  aws_credentials_valid, debug, taken_by, runs, bedrock_calls, call, fnVars >>

\* lines 275-289: join the results in list order, progress 70
PdCombine(t) ==
  /\ threads[t].pc = "pd_chunks"
  /\ threads[t].collected = 1..Len(threads[t].chunks)
  /\ threads' = [threads EXCEPT
                   ![t].pc = "pd_html",
                   ![t].combined_response =
                      Join(ParagraphSeparator, threads[t].processed_chunks)]
  /\ job_results' = [job_results EXCEPT ![threads[t].job].status = "processing",
                                        ![threads[t].job].progress = 70]
  /\ UNCHANGED << job_queue, input, file_exists, pdf_files, thread_alive,
                  aws_credentials_valid, debug, taken_by, runs, bedrock_calls, call, fnVars >>

\* a reconciliation that lets its internal error escape
process_html_with_model_raising(html_content, model_response, internal_error) ==
  IF internal_error THEN [ raised |-> TRUE, html |-> "" ]
  ELSE [ raised |-> FALSE, html |-> "reconciled" ]

\* process_html_with_model of modules/pdf_utils.py: the HTML built from the
\* model response or, when anything inside raises, the original html_content
process_html_with_model(html_content, model_response, internal_error) ==
  IF internal_error THEN [ raised |-> FALSE, html |-> html_content ]
  ELSE [ raised |-> FALSE, html |-> html_with_model_changes(html_content, model_response) ]

\* process_html_with_model, tabulated once for the combined responses of the
\* submitted documents whose chunks come back unchanged
ReconciledDocuments ==
  [ response \in { Join(ParagraphSeparator, ChunkLists[doc]) : doc \in Documents } |->
      [ internal_error \in BOOLEAN |->
          process_html_with_model("html_content", response, internal_error) ] ]

\* line 295: the reconciliation stage; an exception it raised would reach
\* the outer handler
PdHtml(t) ==
  /\ threads[t].pc = "pd_html"
  /\ \E internal_error \in BOOLEAN :
       LET response == threads[t].combined_response
           r == IF response \in DOMAIN ReconciledDocuments
                  THEN ReconciledDocuments[response][internal_error]
                  ELSE process_html_with_model("html_content", response, internal_error)
       IN  threads' = IF r.raised
                        THEN [threads EXCEPT ![t].pc = "pd_except",
                                             ![t].html_error = internal_error]
                        ELSE [threads EXCEPT ![t].pc = "pd_pdf",
                                             ![t].html_error = internal_error,
                                             ![t].processed_html = r.html]
  /\ UNCHANGED << job_results, job_queue, input, file_exists, pdf_files, thread_alive,
                  aws_credentials_valid, debug, taken_by, runs, bedrock_calls, call, fnVars >>

\* lines 299-330: the PDF comes from pisa, or from generate_fallback_pdf when pisa raises; when
\* both raise the job is marked failed and the error re-raised
\* a rendering stage that gives up when pisa raises
after_rendering_without_fallback(rendered) ==
  IF rendered = "pisa"
    THEN [ status |-> "processing", progress |-> 85, pc |-> "pd_save" ]
    ELSE [ status |-> "error", progress |-> 100, pc |-> "pd_except" ]

\* lines 302-330: what the stage writes and where it goes on, by the
\* renderer that produced the PDF ("failed": pisa and generate_fallback_pdf
\* both raised)
after_rendering(rendered) ==
  IF rendered = "failed"
    THEN [ status |-> "error", progress |-> 100, pc |-> "pd_except" ]
    ELSE [ status |-> "processing", progress |-> 85, pc |-> "pd_save" ]

PdPdf(t) ==
  /\ threads[t].pc = "pd_pdf"
  /\ \E rendered \in { "pisa", "fallback", "failed" } :
       LET j == threads[t].job
           after == after_rendering(rendered)
       IN  /\ job_results' = [job_results EXCEPT ![j].status = after.status,
                                                 ![j].progress = after.progress]
           /\ threads' = [threads EXCEPT ![t].pc = after.pc,
                                         ![t].rendered = rendered]
  /\ UNCHANGED << job_queue, input, file_exists, pdf_files, thread_alive,
                  aws_credentials_valid, debug, taken_by, runs, bedrock_calls, call, fnVars >>

\* save_pdf of modules/pdf_utils.py: open(pdf_path, 'wb') creates the file
\* and f.write fills it; either can raise
SavePdfOutcomes == { "saved", "open_failed", "write_failed" }

\* lines 335-340 and 350-370: save_pdf writes the PDF file and its path is
\* assigned to pdf_path; when it raises, pdf_path is still None, the job is
\* marked failed, the finally block removes the uploaded file and the error
\* is re-raised
PdSave(t) ==
  /\ threads[t].pc = "pd_save"
  /\ \E outcome \in SavePdfOutcomes :
       LET j == threads[t].job
       IN  /\ pdf_files' = IF outcome = "open_failed" THEN pdf_files
                           ELSE [pdf_files EXCEPT ![j] = @ + 1]
           /\ IF outcome = "saved"
                THEN /\ threads' = [threads EXCEPT ![t].pc = "pd_c_status",
                                                   ![t].pdf_path = TRUE]
                     /\ UNCHANGED << job_results, file_exists >>
                ELSE /\ job_results' = [job_results EXCEPT ![j].status = "error",
                                                           ![j].progress = 100]
                     /\ file_exists' = [file_exists EXCEPT ![j] = FALSE]
                     /\ threads' = [threads EXCEPT ![t].pc = "pd_except"]
  /\ UNCHANGED << job_queue, input, thread_alive,
                  aws_credentials_valid, debug, taken_by, runs, bedrock_calls, call, fnVars >>

\* line 343
PdCompletedStatus(t) ==
  /\ threads[t].pc = "pd_c_status"
  /\ job_results' = [job_results EXCEPT ![threads[t].job].status = "completed"]
  /\ threads' = [threads EXCEPT ![t].pc = "pd_c_progress"]
  /\ UNCHANGED << job_queue, input, file_exists, pdf_files, thread_alive,
                  aws_credentials_valid, debug, taken_by, runs, bedrock_calls, call, fnVars >>

\* lines 344-345
PdCompletedProgress(t) ==
  /\ threads[t].pc = "pd_c_progress"
  /\ job_results' = [job_results EXCEPT ![threads[t].job].progress = 100]
  /\ threads' = [threads EXCEPT ![t].pc = "pd_c_response"]
  /\ UNCHANGED << job_queue, input, file_exists, pdf_files, thread_alive,
                  aws_credentials_valid, debug, taken_by, runs, bedrock_calls, call, fnVars >>

\* line 346
PdCompletedResponse(t) ==
  /\ threads[t].pc = "pd_c_response"
  /\ job_results' = [job_results EXCEPT ![threads[t].job].response =
                                           threads[t].combined_response]
  /\ threads' = [threads EXCEPT ![t].pc = "pd_c_pdf"]
  /\ UNCHANGED << job_queue, input, file_exists, pdf_files, thread_alive,
                  aws_credentials_valid, debug, taken_by, runs, bedrock_calls, call, fnVars >>

\* base64.b64encode(pdf_buffer.getvalue()) of a generated PDF
EncodedPdf == "JVBERi0x"

\* line 347
PdCompletedPdf(t) ==
  /\ threads[t].pc = "pd_c_pdf"
  /\ job_results' = [job_results EXCEPT ![threads[t].job].pdf_base64 = EncodedPdf]
  /\ threads' = [threads EXCEPT ![t].pc = "pd_cleanup"]
  /\ UNCHANGED << job_queue, input, file_exists, pdf_files, thread_alive,
                  aws_credentials_valid, debug, taken_by, runs, bedrock_calls, call, fnVars >>

\* lines 358-372: the finally block removes the uploaded file and the PDF
\* file, and process_document returns
PdCleanup(t) ==
  /\ threads[t].pc = "pd_cleanup"
  /\ file_exists' = [file_exists EXCEPT ![threads[t].job] = FALSE]
  /\ pdf_files' = IF threads[t].pdf_path
                    THEN [pdf_files EXCEPT ![threads[t].job] = @ - 1]
                    ELSE pdf_files
  /\ threads' = [threads EXCEPT ![t] = AfterReturn(t)]
  /\ UNCHANGED << job_results, job_queue, input, thread_alive,
                  aws_credentials_valid, debug, taken_by, runs, bedrock_calls, call, fnVars >>

\* lines 374-390: the outer handler marks the job failed, removes the
\* uploaded file, and process_document returns
PdExcept(t) ==
  /\ threads[t].pc = "pd_except"
  /\ job_results' = [job_results EXCEPT ![threads[t].job].status = "error",
                                        ![threads[t].job].progress = 100]
  /\ file_exists' = [file_exists EXCEPT ![threads[t].job] = FALSE]
  /\ threads' = [threads EXCEPT ![t] = AfterReturn(t)]
  /\ UNCHANGED << job_queue, input, pdf_files, thread_alive,
                  aws_credentials_valid, debug, taken_by, runs, bedrock_calls, call, fnVars >>

ProcessDocumentStep(t) ==
  \/ PdStart(t)
  \/ PdStartProgress(t)
  \/ PdExtract(t)
  \/ Pd40(t)
  \/ \E i \in 1..Len(threads[t].chunks) :
       ChunkStart(t, i) \/ ChunkFinish(t, i) \/ ChunkCollect(t, i)
  \/ PdCombine(t)
  \/ PdHtml(t)
  \/ PdPdf(t)
  \/ PdSave(t)
  \/ PdCompletedStatus(t)
  \/ PdCompletedProgress(t)
  \/ PdCompletedResponse(t)
  \/ PdCompletedPdf(t)
  \/ PdCleanup(t)
  \/ PdExcept(t)

\* steps of the consumers and of the pipelines they run
ConsumerNext ==
  \/ WorkerGet
  \/ \E j \in Jobs : ImmediateCheck(j) \/ ImmediateGet(j) \/ ImmediateEmpty(j)
  \/ DebugRequest
  \/ DebugDequeue
  \/ DebugReturn
  \/ \E j \in Jobs : BackgroundRun(j)
  \/ \E t \in ThreadIds : ProcessDocumentStep(t)

\* the documents submitted when several jobs compete for the consumers
QueueDocuments == { DocSmall }

(***************************************************************************)
(* Spec: up to MaxJobs submissions and every consumer of the queue.        *)
(***************************************************************************)
Next ==
  \/ \E j \in Jobs, doc \in QueueDocuments : Submit(j, doc)
  \/ ConsumerNext

Spec == Init /\ [][Next]_vars

(***************************************************************************)
(* HandlerSpec: the submission handler taken statement by statement: the   *)
(* job entry is created (server.py, lines 126-131 and 248-253), then the   *)
(* job is put on the queue and the rest of the handler runs.  Handlers of  *)
(* different requests run side by side with the consumers.                 *)
(***************************************************************************)
\* job j is on the queue
InQueue(j) == \E i \in 1..Len(job_queue) : job_queue[i] = j

\* the handler of job j has created the entry and not yet reached
\* job_queue.put
EntryCreated(j) ==
  /\ job_results[j].status = "queued"
  /\ input[j] # NoDocument
  /\ ~InQueue(j)
  /\ taken_by[j] = "nobody"

\* a handler that writes nothing into job_results before job_queue.put
CreateJobEntry_skipped(j, doc) ==
  /\ j = NextJobId
  /\ j \in Jobs
  /\ ~InQueue(j)
  /\ job_queue' = Append(job_queue, j)
  /\ input' = [input EXCEPT ![j] = doc]
  /\ file_exists' = [file_exists EXCEPT ![j] = TRUE]
  /\ UNCHANGED << job_results, pdf_files, thread_alive, aws_credentials_valid, threads, debug,
                  taken_by, runs, bedrock_calls, call, fnVars >>

\* lines 120-131: the file is saved and job_results[job_id] is assigned
CreateJobEntry(j, doc) ==
  /\ j = NextJobId
  /\ j \in Jobs
  /\ job_results' = [job_results EXCEPT ![j] = QueuedJob]
  /\ input' = [input EXCEPT ![j] = doc]
  /\ file_exists' = [file_exists EXCEPT ![j] = TRUE]
  /\ UNCHANGED << job_queue, pdf_files, thread_alive, aws_credentials_valid, threads, debug,
                  taken_by, runs, bedrock_calls, call, fnVars >>

\* lines 134-163: job_queue.put, then the backup thread when the processing
\* thread is not alive, then update_last_request_time
EnqueueJob(j) ==
  /\ EntryCreated(j)
  /\ job_queue' = Append(job_queue, j)
  /\ threads' = IF thread_alive THEN threads
                ELSE [threads EXCEPT ![Immediate(j)].pc = "imm_check"]
  /\ warmup' = update_last_request_time(warmup)
  /\ UNCHANGED << job_results, input, file_exists, pdf_files, thread_alive,
                  aws_credentials_valid, debug, taken_by, runs, bedrock_calls, call,
                  chunk_call, prio_call, dedup_call, split_call, html_call, proc_call,
                  model_call, stat_calls, sched >>

HandlerNext ==
  \/ \E j \in Jobs, doc \in QueueDocuments : CreateJobEntry(j, doc)
  \/ \E j \in Jobs : EnqueueJob(j)
  \/ ConsumerNext

HandlerSpec == Init /\ [][HandlerNext]_vars

(***************************************************************************)
(* LiveSpec: Spec with every thread scheduled again and again: the worker  *)
(* loop polls the queue, a started thread runs, a request handler returns, *)
(* and every step of process_document returns.                             *)
(***************************************************************************)
Fairness ==
  /\ WF_vars(WorkerGet)
  /\ WF_vars(DebugDequeue)
  /\ WF_vars(DebugReturn)
  /\ \A j \in Jobs :
       /\ WF_vars(ImmediateCheck(j))
       /\ WF_vars(ImmediateGet(j) \/ ImmediateEmpty(j))
       /\ WF_vars(BackgroundRun(j))
  /\ \A t \in ThreadIds : WF_vars(ProcessDocumentStep(t))

LiveSpec == Spec /\ Fairness

(***************************************************************************)
(* PipelineSpec: one submission, of any of the documents.                  *)
(***************************************************************************)
PipelineNext ==
  \/ \E doc \in Documents : Submit(1, doc)
  \/ ConsumerNext

PipelineSpec == Init /\ [][PipelineNext]_vars

(***************************************************************************)
(* DebugSpec: two submissions of the three-chunk document, consumed by the *)
(* /debug/process_queue handler and its background threads.                *)
(***************************************************************************)
DebugNext ==
  \/ \E j \in Jobs : Submit(j, DocThree)
  \/ DebugRequest
  \/ DebugDequeue
  \/ DebugReturn
  \/ \E j \in Jobs : BackgroundRun(j)
  \/ \E j \in Jobs : ProcessDocumentStep(Background(j))

DebugSpec == Init /\ [][DebugNext]_vars

(***************************************************************************)
(* BedrockClient._call_bedrock_with_retry (modules/bedrock_integration.py).*)
(* call.outcomes lists what invoke_model did at each attempt, call.sleeps  *)
(* the time.sleep durations, call.result the value returned or the error   *)
(* raised.                                                                 *)
(***************************************************************************)
\* the response invoke_model returns
Ok == [ class |-> "none", message |-> "ok" ]

\* the error codes the service answers with
ValidErrorCodes == { "ThrottlingException", "ServiceUnavailable", "ValidationException" }

\* what bedrock_runtime.invoke_model can do: return a response or raise an
\* exception whose text names the error code.  The exception is either a
\* boto3.exceptions.Boto3Error or a botocore.exceptions.ClientError, which
\* is not a Boto3Error
BackendOutcomes ==
  IF aws_credentials_valid
    THEN { Ok } \cup [ class : { "Boto3Error", "ClientError" }, message : ValidErrorCodes ]
    ELSE [ class : { "Boto3Error", "ClientError" },
           message : { "UnrecognizedClientException" } ]

\* `except boto3.exceptions.Boto3Error`
IsBoto3Error(e) == e.class = "Boto3Error"

\* a classification that lets credential errors fall through to the retry
IsCredentialErrorNever(e) == FALSE

\* line 178
IsCredentialError(e) ==
  \/ Contains("UnrecognizedClientException", e.message)
  \/ Contains("InvalidSignatureException", e.message)
  \/ Contains("security token", Lower(e.message))

\* line 184
IsThrottling(e) ==
  \/ Contains("ThrottlingException", e.message)
  \/ Contains("TooManyRequestsException", e.message)

\* line 191
IsUnavailable(e) ==
  \/ Contains("ServiceUnavailable", e.message)
  \/ Contains("InternalServerError", e.message)

\* backoff_time *= 2
NextBackoff(backoff_time) == backoff_time * 2

\* the message of the exception raised for a credential error (line 181)
CredentialsErrorMessage == "AWS Credentials Error"

\* the call starts: last_exception = None, backoff_time = 1
CallBedrock ==
  /\ call.pc = "idle"
  /\ call' = [NoCall EXCEPT !.pc = "invoke", !.backoff_time = InitialBackoff]
  /\ UNCHANGED << jobVars, aws_credentials_valid, fnVars >>

\* one attempt of the loop, lines 151-202, up to the sleep
InvokeModel ==
  /\ call.pc = "invoke"
  /\ \E e \in BackendOutcomes :
       LET c == [call EXCEPT !.outcomes = Append(@, e), !.invocations = @ + 1]
       IN  call' =
             IF e = Ok
               THEN [c EXCEPT !.pc = "returned", !.result = "response_body"]
             ELSE IF ~IsBoto3Error(e)
               THEN [c EXCEPT !.pc = "raised", !.result = e.message]
             ELSE IF IsCredentialError(e)
               THEN [c EXCEPT !.pc = "raised", !.last_exception = e,
                              !.result = CredentialsErrorMessage]
             ELSE IF IsThrottling(e)
               THEN [c EXCEPT !.pc = "sleep", !.last_exception = e]
             ELSE IF IsUnavailable(e)
               THEN [c EXCEPT !.pc = "sleep", !.last_exception = e]
             ELSE [c EXCEPT !.pc = "sleep", !.last_exception = e]
  /\ UNCHANGED << jobVars, aws_credentials_valid, fnVars >>

\* a loop that runs one attempt more than `retries`
AttemptsLeftOneMore(c) == c.attempt <= Retries

\* `for attempt in range(retries)`: is there another attempt
AttemptsLeft(c) == c.attempt < Retries

\* time.sleep(backoff_time); backoff_time *= 2; continue -- and, after the
\* last attempt, `raise last_exception`
BackoffSleep ==
  /\ call.pc = "sleep"
  /\ LET c == [call EXCEPT !.sleeps = Append(@, call.backoff_time),
                           !.backoff_time = NextBackoff(@),
                           !.attempt = @ + 1]
     IN  call' = IF AttemptsLeft(c)
                   THEN [c EXCEPT !.pc = "invoke"]
                   ELSE [c EXCEPT !.pc = "raised",
                                  !.result = c.last_exception.message]
  /\ UNCHANGED << jobVars, aws_credentials_valid, fnVars >>

\* the session token expires while the server runs
CredentialsExpire ==
  /\ aws_credentials_valid
  /\ aws_credentials_valid' = FALSE
  /\ UNCHANGED << jobVars, call, fnVars >>

(***************************************************************************)
(* DispatchSpec: one dispatcher call against any sequence of outcomes.     *)
(***************************************************************************)
DispatchNext ==
  \/ CallBedrock
  \/ InvokeModel
  \/ BackoffSleep
  \/ CredentialsExpire

DispatchSpec == Init /\ [][DispatchNext]_vars

(***************************************************************************)
(* One chunk call on its own: BedrockClient.process_chunk                  *)
(* (modules/bedrock_integration.py), which runs _call_bedrock_with_retry   *)
(* and reads the text out of the response body, and process_chunk of       *)
(* modules/text_processing.py with a text-generation pipeline.             *)
(***************************************************************************)
\* the chunk argument
ChunkInputs == { "Party A pays", "Fee 5" }

\* the texts a backend can answer with
ResponseTexts == { "", "ok", "Fee 5", "Party A pays", "party a pays", "Party B pays" }

\* the parsed response body: {'outputs': [{'text': ...}]}, {'generation': ...}
\* or a body with neither key
ResponseBodies == [ format : { "outputs", "generation", "unexpected" }, text : ResponseTexts ]

\* the pipelines process_chunk of text_processing can be given: None or a
\* callable that generates a text
Pipelines ==
  { text_generation_pipeline } \cup [ callable : { TRUE }, generated_text : ResponseTexts ]

\* lines 106-116: the generated text by response format
ExtractGeneratedText(response) ==
  IF response.format = "outputs" THEN response.text
  ELSE IF response.format = "generation" THEN response.text
  ELSE ""

\* BedrockClient.process_chunk after _call_bedrock_with_retry has returned
\* `response` or raised: lines 106-144
BedrockClient_process_chunk(chunk, dispatch_raised, response) ==
  IF dispatch_raised THEN ChunkReturn(chunk, FALSE)
  ELSE LET generated_text == ExtractGeneratedText(response)
       IN  IF IsShortResponse(generated_text) THEN ChunkReturn(chunk, FALSE)
           ELSE ChunkReturn(generated_text, TRUE)

\* bedrock_client.process_chunk(chunk, ...) is called and calls
\* _call_bedrock_with_retry
ProcessChunk ==
  /\ chunk_call.pc = "idle"
  /\ call.pc = "idle"
  /\ \E chunk \in ChunkInputs :
       chunk_call' = [NoChunkCall EXCEPT !.pc = "calling", !.via = "bedrock",
                                         !.chunk = chunk]
  /\ call' = [NoCall EXCEPT !.pc = "invoke", !.backoff_time = InitialBackoff]
  /\ UNCHANGED << jobVars, aws_credentials_valid, prio_call, laterCalls >>

\* the dispatcher returned a response body
ProcessChunkReturn ==
  /\ chunk_call.pc = "calling"
  /\ call.pc = "returned"
  /\ \E response \in ResponseBodies :
       LET r == BedrockClient_process_chunk(chunk_call.chunk, FALSE, response)
       IN  chunk_call' = [chunk_call EXCEPT !.pc = "done",
                            !.generated_text = ExtractGeneratedText(response),
                            !.result = r.result, !.changed = r.changed,
                            !.raised = r.raised]
  /\ UNCHANGED << jobVars, aws_credentials_valid, call, prio_call, laterCalls >>

\* the dispatcher raised: `except Exception` of process_chunk
ProcessChunkExcept ==
  /\ chunk_call.pc = "calling"
  /\ call.pc = "raised"
  /\ LET r == BedrockClient_process_chunk(chunk_call.chunk, TRUE, << >>)
     IN  chunk_call' = [chunk_call EXCEPT !.pc = "done", !.dispatch_raised = TRUE,
                          !.result = r.result, !.changed = r.changed,
                          !.raised = r.raised]
  /\ UNCHANGED << jobVars, aws_credentials_valid, call, prio_call, laterCalls >>

\* process_chunk_with_change_detection of text_processing with a pipeline
LocalProcessChunk ==
  /\ chunk_call.pc = "idle"
  /\ call.pc = "idle"
  /\ \E chunk \in ChunkInputs, pipeline \in Pipelines :
       LET r == process_chunk_with_change_detection(chunk, pipeline)
       IN  chunk_call' = [NoChunkCall EXCEPT !.pc = "done", !.via = "pipeline",
                            !.chunk = chunk,
                            !.dispatch_raised = ~pipeline.callable,
                            !.generated_text = pipeline.generated_text,
                            !.result = r.result, !.changed = r.changed,
                            !.raised = r.raised]
  /\ UNCHANGED << jobVars, aws_credentials_valid, call, prio_call, laterCalls >>

ChunkNext ==
  \/ ProcessChunk
  \/ InvokeModel
  \/ BackoffSleep
  \/ CredentialsExpire
  \/ ProcessChunkReturn
  \/ ProcessChunkExcept
  \/ LocalProcessChunk

ChunkSpec == Init /\ [][ChunkNext]_vars

(***************************************************************************)
(* prioritize_chunks on its own, for every chunk list of up to MaxChunks   *)
(* chunks (repeated chunks included) and every target list below.          *)
(***************************************************************************)
MaxChunks == 3

\* the chunk texts: one without a structure marker, one with a marker and
\* the second half of the long target, one with the short target
ChunkTexts == { "intro", "Terms here", "pay ABC" }

\* chunk lists of 1 to MaxChunks chunks
ChunkListInputs == UNION { [1..n -> ChunkTexts] : n \in 1..MaxChunks }

\* no target, a short target, a target of more than 10 characters, and both
TargetInputs == { << >>, << "ABC" >>, << "payment terms here" >>,
                  << "abc", "payment terms here" >> }

PrioritizeChunks ==
  /\ prio_call.pc = "idle"
  /\ \E chunks \in ChunkListInputs, targets \in TargetInputs :
       prio_call' = [ pc |-> "done", chunks |-> chunks, targets |-> targets,
                      result |-> prioritize_chunks(chunks, targets) ]
  /\ UNCHANGED << jobVars, aws_credentials_valid, call, chunk_call, laterCalls >>

PrioritizeNext == PrioritizeChunks

PrioritizeSpec == Init /\ [][PrioritizeNext]_vars

(***************************************************************************)
(* prioritize_chunks on the chunks of a contract: chunks that name the     *)
(* targets, and chunks that carry section vocabulary only.                 *)
(***************************************************************************)
MaxRanked == 2

ContractChunks ==
  { "intro", "pay ABC", "term payment section clause parties",
    "ABC payment terms here" }

ContractChunkLists == UNION { [1..n -> ContractChunks] : n \in 1..MaxRanked }

PrioritizeContractChunks ==
  /\ prio_call.pc = "idle"
  /\ \E chunks \in ContractChunkLists, targets \in TargetInputs :
       prio_call' = [ pc |-> "done", chunks |-> chunks, targets |-> targets,
                      result |-> prioritize_chunks(chunks, targets) ]
  /\ UNCHANGED << jobVars, aws_credentials_valid, call, chunk_call, laterCalls >>

RankNext == PrioritizeContractChunks

RankSpec == Init /\ [][RankNext]_vars

(***************************************************************************)
(* The de-duplication pass on its own, for every list of up to MaxTargets  *)
(* collected context windows, run once and then on its own output.         *)
(***************************************************************************)
MaxTargets == 3

\* context windows: three that contain "fee", one of them inside no other,
\* and two unrelated ones
TargetTexts == { "fee", "late fee", "fee 5", "term", "law" }

\* the `targets` list before the pass: any order, repetitions included
TargetListInputs == UNION { [1..n -> TargetTexts] : n \in 0..MaxTargets }

\* lines 187-202 on a collected list
Dedup ==
  /\ dedup_call.pc = "idle"
  /\ \E targets \in TargetListInputs :
       dedup_call' = [NoDedupCall EXCEPT !.pc = "once", !.targets = targets,
                                         !.result = unique_targets(targets)]
  /\ UNCHANGED << serverVars, split_call, html_call, warmup, proc_call, model_call >>

\* the same pass on the list it returned
DedupAgain ==
  /\ dedup_call.pc = "once"
  /\ dedup_call' = [dedup_call EXCEPT !.pc = "twice",
                                      !.again = unique_targets(dedup_call.result)]
  /\ UNCHANGED << serverVars, split_call, html_call, warmup, proc_call, model_call >>

DedupNext == Dedup \/ DedupAgain

DedupSpec == Init /\ [][DedupNext]_vars

(***************************************************************************)
(* Splitting and joining on their own: a document of up to MaxParagraphs   *)
(* paragraphs goes through lines 186-211 of process_document, every chunk  *)
(* comes back from inference unchanged, and line 275 joins the chunks.     *)
(***************************************************************************)
MaxParagraphs == 7

\* paragraphs shorter and longer than chunk_overlap
ParagraphLengths == { 4000, 12000 }

\* the documents: every list of 1 to MaxParagraphs paragraph lengths
ParagraphDocuments == UNION { [1..n -> ParagraphLengths] : n \in 1..MaxParagraphs }

\* the orders prioritize_chunks can give n chunks
ChunkOrders(n) == { f \in [1..n -> 1..n] : \A a, b \in 1..n : f[a] = f[b] => a = b }

\* lines 186-211: the chunk list handed to the executor
SplitDocument ==
  /\ split_call.pc = "idle"
  /\ \E paragraphs \in ParagraphDocuments :
       LET document_content == ParagraphRange(1, Len(paragraphs))
           chunks == split_text(paragraphs)
       IN  \/ /\ TextLength(paragraphs, document_content) < ChunkSize
              /\ split_call' = [NoSplitCall EXCEPT !.pc = "split",
                                  !.paragraphs = paragraphs,
                                  !.chunks = << document_content >>]
           \/ /\ TextLength(paragraphs, document_content) >= ChunkSize
              /\ Len(chunks) <= 2
              /\ split_call' = [NoSplitCall EXCEPT !.pc = "split",
                                  !.paragraphs = paragraphs, !.chunks = chunks]
           \/ /\ TextLength(paragraphs, document_content) >= ChunkSize
              /\ Len(chunks) > 2
              /\ \E order \in ChunkOrders(Len(chunks)) :
                   split_call' = [NoSplitCall EXCEPT !.pc = "split",
                                     !.paragraphs = paragraphs,
                                     !.chunks = [c \in 1..Len(chunks) |-> chunks[order[c]]]]
  /\ UNCHANGED << serverVars, dedup_call, html_call, warmup, proc_call, model_call >>

\* line 275 with processed_chunks[i] = chunks[i]
CombineChunks ==
  /\ split_call.pc = "split"
  /\ split_call' = [split_call EXCEPT !.pc = "combined",
                       !.combined_response = JoinTexts(split_call.chunks, 1)]
  /\ UNCHANGED << serverVars, dedup_call, html_call, warmup, proc_call, model_call >>

SplitNext == SplitDocument \/ CombineChunks

SplitSpec == Init /\ [][SplitNext]_vars

(***************************************************************************)
(* process_html_with_model on its own, for the markups and the aggregated  *)
(* texts below.                                                            *)
(***************************************************************************)
\* original markups: extracted texts of 5, 31 and 12 characters, the last
\* one in a markup without a body element
HtmlDocuments ==
  { "<html><body><p>Fee 5</p></body></html>",
    "<html><body><h2>TERMS</h2><p>Party A pays the fee of 5.</p></body></html>",
    "<pre>Party A pays</pre>" }

\* aggregated texts: empty, short, padded, quoted, fenced, HTML and plain
ModelResponses ==
  { "", "x", "ok", "Party A", "         \n", " Party A pays \n",
    "\"Party B pays the fee of 6.\"",
    "TERMS\n\nParty B pays the fee of 6.",
    "Signed by: A\n\n1. Fee 6\n\nNotes:",
    "~~~html<div>Fee 6</div>~~~",
    "<div>6</div>",
    "<html><body><p>Fee 6</p></body></html>" }

\* process_html_with_model(html_content, combined_response); internal_error
\* says whether something inside the try block raises
ProcessHtmlWithModel ==
  /\ html_call.pc = "idle"
  /\ \E html_content \in HtmlDocuments, model_response \in ModelResponses,
        internal_error \in BOOLEAN :
       LET r == process_html_with_model(html_content, model_response, internal_error)
       IN  html_call' = [ pc |-> IF r.raised THEN "raised" ELSE "done",
                          html_content |-> html_content,
                          model_response |-> model_response,
                          internal_error |-> internal_error,
                          result |-> r.html ]
  /\ UNCHANGED << serverVars, dedup_call, split_call, warmup, proc_call, model_call >>

HtmlNext == ProcessHtmlWithModel

HtmlSpec == Init /\ [][HtmlNext]_vars

(***************************************************************************)
(* WarmupSpec: the keep-warm scheduler with the clock, job submissions,    *)
(* further start() calls and the manual trigger of /warmup/trigger.        *)
(***************************************************************************)
MaxTicks == 12

\* the clock advances in steps of 180 seconds: 4 steps are exactly 80% of
\* the interval, 5 steps the interval
TickSeconds == 180

MaxStarts == 2

MaxTriggers == 1

\* server.py, line 53: initialize_warmup_scheduler creates the scheduler
\* and starts it
InitializeWarmupScheduler ==
  /\ warmup.pc = "none"
  /\ \E outcome \in WarmupOutcomes :
       warmup' = [start(NewScheduler(warmup), outcome) EXCEPT !.start_calls = @ + 1]
  /\ UNCHANGED << serverVars, dedup_call, split_call, html_call, proc_call, model_call >>

\* a further start() call on the scheduler
StartAgain ==
  /\ warmup.pc = "created"
  /\ warmup.start_calls < MaxStarts
  /\ \E outcome \in WarmupOutcomes :
       warmup' = [start(warmup, outcome) EXCEPT !.start_calls = @ + 1]
  /\ UNCHANGED << serverVars, dedup_call, split_call, html_call, proc_call, model_call >>

\* time passes on the running server
Tick ==
  /\ warmup.pc = "created"
  /\ warmup.ticks < MaxTicks
  /\ warmup' = [warmup EXCEPT !.now = @ + TickSeconds, !.ticks = @ + 1]
  /\ UNCHANGED << serverVars, dedup_call, split_call, html_call, proc_call, model_call >>

\* the worker thread's sleep is over: it makes its periodic check
WarmupWorkerCheck ==
  /\ warmup.worker.pc # "none"
  /\ warmup.is_running
  /\ warmup.now >= warmup.worker.wake_at
  /\ \E outcome \in WarmupOutcomes :
       warmup' = warmup_worker_pass(warmup, outcome)
  /\ UNCHANGED << serverVars, dedup_call, split_call, html_call, proc_call, model_call >>

\* POST /warmup/trigger (server.py, lines 86-100)
TriggerWarmup ==
  /\ warmup.pc = "created"
  /\ warmup.trigger_calls < MaxTriggers
  /\ \E outcome \in WarmupOutcomes :
       warmup' = [send_warmup_request(warmup, outcome, "trigger")
                    EXCEPT !.trigger_calls = @ + 1]
  /\ UNCHANGED << serverVars, dedup_call, split_call, html_call, proc_call, model_call >>

\* a job submission once the server is up
SubmitWhileWarm ==
  /\ warmup.pc = "created"
  /\ \E j \in Jobs, doc \in QueueDocuments : Submit(j, doc)

WarmupNext ==
  \/ InitializeWarmupScheduler
  \/ StartAgain
  \/ Tick
  \/ WarmupWorkerCheck
  \/ TriggerWarmup
  \/ SubmitWhileWarm

WarmupSpec == Init /\ [][WarmupNext]_vars

(***************************************************************************)
(* process_with_bedrock (modules/processor.py, lines 196-365), one action  *)
(* per stage, with invoke_mistral_model of modules/client.py.  Texts are   *)
(* named, not spelled out.                                                 *)
(***************************************************************************)
MaxHtmlChunks == 2

\* what extract_text_as_html and the fallback of lines 206-230 leave in
\* html_content: the extracted markup, the <pre> page built from the plain
\* text, or the empty string when both extractions fail
Extractions == { "html", "fallback_text", "failed" }

\* what client.invoke_model does for one chunk
BackendReplies == { "response", "short_response", "error" }

\* invoke_mistral_model (modules/client.py, lines 41-124): the content, the
\* placeholder page for a short content, or the error page; never an
\* exception
invoke_mistral_model_content(chunk, reply) ==
  IF reply = "response" THEN "edited " \o chunk
  ELSE IF reply = "short_response" THEN "Model Processing Result page"
  ELSE "Processing Error page"

\* lines 240-264: process_chunk_worker; a result under 10 characters is
\* replaced by the chunk
processor_chunk_worker(chunk, reply) ==
  LET result == invoke_mistral_model_content(chunk, reply)
  IN  IF result = "" \/ Len(Strip(result)) < 10 THEN chunk ELSE result

\* an `except` clause that lets the exception go on to the caller
outer_except_reraising(proc) ==
  [proc EXCEPT !.pc = "raised", !.raised = TRUE]

\* lines 361-365: except Exception as e: return {'error': True, 'message': ...}
outer_except(proc) ==
  [proc EXCEPT !.pc = "returned",
               !.result = [NoResult EXCEPT !.keys = { "error", "message" },
                                           !.error = TRUE,
                                           !.message = "Error occurred after: "
                                                       \o proc.exception]]

\* lines 203-230: extraction and its fallback, both inside their own try
PwbExtract ==
  /\ proc_call.pc = "idle"
  /\ \E extraction \in Extractions :
       proc_call' = [NoProcCall EXCEPT !.pc = "chunk", !.extraction = extraction,
                        !.html_content = IF extraction = "html" THEN "html"
                                         ELSE IF extraction = "fallback_text" THEN "pre"
                                         ELSE ""]
  /\ UNCHANGED << serverVars, dedup_call, split_call, html_call, warmup, model_call >>

\* lines 233-238: chunk_html_document; the parser may fail
PwbChunk ==
  /\ proc_call.pc = "chunk"
  /\ \/ \E n \in 1..MaxHtmlChunks :
          /\ (proc_call.html_content = "" => n = 1)
          /\ proc_call' = [proc_call EXCEPT !.pc = "infer",
                             !.chunks = [i \in 1..n |-> proc_call.html_content],
                             !.outcomes = [i \in 1..n |-> "none"],
                             !.processed_chunks = [i \in 1..n |-> "None"]]
     \/ proc_call' = [proc_call EXCEPT !.pc = "except", !.exception = "parser error"]
  /\ UNCHANGED << serverVars, dedup_call, split_call, html_call, warmup, model_call >>

\* lines 240-275: one chunk goes through process_chunk_worker and its
\* future's result is stored
PwbInvoke(i) ==
  /\ proc_call.pc = "infer"
  /\ i \in 1..Len(proc_call.chunks)
  /\ proc_call.outcomes[i] = "none"
  /\ \E reply \in BackendReplies :
       proc_call' = [proc_call EXCEPT !.outcomes[i] = reply,
                        !.processed_chunks[i] =
                            processor_chunk_worker(proc_call.chunks[i], reply)]
  /\ UNCHANGED << serverVars, dedup_call, split_call, html_call, warmup, model_call >>

\* line 278: combine_html_chunks, which handles its own parse errors
PwbCombine ==
  /\ proc_call.pc = "infer"
  /\ \A i \in 1..Len(proc_call.chunks) : proc_call.outcomes[i] # "none"
  /\ proc_call' = [proc_call EXCEPT !.pc = "render",
                     !.combined_html = Join("", proc_call.processed_chunks)]
  /\ UNCHANGED << serverVars, dedup_call, split_call, html_call, warmup, model_call >>

\* lines 281-331: pisa.CreatePDF; on a conversion error the fallback
\* generator, inside its own try, leaves its own PDF or none
PwbRender ==
  /\ proc_call.pc = "render"
  /\ \/ \E pdf \in { "pdf", "fallback pdf", "" } :
          proc_call' = [proc_call EXCEPT !.pc = "save", !.pdf = pdf]
     \/ proc_call' = [proc_call EXCEPT !.pc = "except", !.exception = "renderer error"]
  /\ UNCHANGED << serverVars, dedup_call, split_call, html_call, warmup, model_call >>

\* lines 334-360: encode, write the file, return the result
PwbSave ==
  /\ proc_call.pc = "save"
  /\ \/ proc_call' = [proc_call EXCEPT !.pc = "returned",
                        !.result = [NoResult EXCEPT
                                      !.keys = { "response", "pdf_base64", "pdf_path" },
                                      !.response = proc_call.combined_html,
                                      !.pdf_base64 = "base64 of " \o proc_call.pdf,
                                      !.pdf_path = "generated_pdfs/file.pdf"]]
     \/ proc_call' = [proc_call EXCEPT !.pc = "except", !.exception = "write error"]
  /\ UNCHANGED << serverVars, dedup_call, split_call, html_call, warmup, model_call >>

\* lines 361-365: the handler of the function's try block
PwbExcept ==
  /\ proc_call.pc = "except"
  /\ proc_call' = outer_except(proc_call)
  /\ UNCHANGED << serverVars, dedup_call, split_call, html_call, warmup, model_call >>

ProcessorNext ==
  \/ PwbExtract
  \/ PwbChunk
  \/ \E i \in 1..MaxHtmlChunks : PwbInvoke(i)
  \/ PwbCombine
  \/ PwbRender
  \/ PwbSave
  \/ PwbExcept

ProcessorSpec == Init /\ [][ProcessorNext]_vars

(***************************************************************************)
(* invoke_mistral_model under with_bedrock_error_handling                  *)
(* (bedrock_integration/client.py, lines 44-153).  Every caller passes     *)
(* modelId by keyword.                                                     *)
(***************************************************************************)
\* max_retries = 3 of the wrapper
max_retries == 3

\* an imported model's identifier and the fallback model id of line 64
ImportedModel == "arn:aws:bedrock:us-east-1:1:imported-model/m1"

FallbackModel == "mistral.mistral-8x7b-instruct-v0:1"

\* the error codes the backend answers with
ClientErrorCodes ==
  { "ModelNotReadyException", "ThrottlingException", "ValidationException",
    "InternalServerException" }

\* what client.invoke_model does at one attempt: it answers, or it raises an
\* exception of a class, with type(e).__name__ and str(e); botocore raises
\* ClientError subclasses, which are not Boto3Error subclasses
ClientOutcomes ==
  { [ class |-> "none", type |-> "", message |-> "ok" ] } \cup
  { [ class |-> c, type |-> code,
      message |-> "An error occurred (" \o code \o ") when calling InvokeModel" ] :
      c \in { "Boto3Error", "ClientError" }, code \in ClientErrorCodes }

\* a handler that tries again whenever a model is not ready
WrapperExcept_retrying_unready(m, e) ==
  IF Contains("ModelNotReadyException", e.message)
    THEN [m EXCEPT !.modelId = FallbackModel]
    ELSE [m EXCEPT !.pc = "raised", !.result = "Error calling Bedrock: " \o e.message]

\* lines 54-93: what the wrapper does with the exception e of one attempt
WrapperExcept(m, e) ==
  IF IsBoto3Error(e)
    THEN IF Contains("ModelNotReadyException", e.message)
           THEN IF Contains("imported-model", m.modelId)
                  THEN [m EXCEPT !.modelId = FallbackModel]
                  ELSE [m EXCEPT !.pc = "raised",
                          !.result = "Both primary and fallback models are not ready"]
         ELSE IF /\ (Contains("ThrottlingException", e.type)
                       \/ Contains("TooManyRequestsException", e.type))
                 /\ m.retry_count + 1 < max_retries
           THEN [m EXCEPT !.retry_count = @ + 1,
                          !.sleeps = Append(@, 2 ^ (m.retry_count + 1))]
         ELSE LET counted == IF Contains("ThrottlingException", e.type)
                                  \/ Contains("TooManyRequestsException", e.type)
                               THEN m.retry_count + 1 ELSE m.retry_count
              IN  [m EXCEPT !.pc = "raised", !.retry_count = counted,
                     !.result =
                       IF Contains("AccessDeniedException", e.type)
                         THEN "AWS Bedrock access denied"
                       ELSE IF Contains("ValidationException", e.type)
                         THEN "Invalid request to Bedrock API"
                       ELSE IF Contains("ServiceUnavailableException", e.type)
                         THEN "AWS Bedrock service unavailable"
                       ELSE "AWS Bedrock error: " \o e.type]
    ELSE [m EXCEPT !.pc = "raised", !.result = "Error calling Bedrock: " \o e.message]

\* invoke_mistral_model(prompt, modelId=...) is called
ModelInvoke ==
  /\ model_call.pc = "idle"
  /\ \E modelId \in { ImportedModel, FallbackModel } :
       model_call' = [NoModelCall EXCEPT !.pc = "loop", !.primary = modelId,
                                         !.modelId = modelId]
  /\ UNCHANGED << serverVars, dedup_call, split_call, html_call, warmup, proc_call >>

\* one pass of the wrapper's `while retry_count < max_retries` loop
ModelAttempt ==
  /\ model_call.pc = "loop"
  /\ model_call.retry_count < max_retries
  /\ \E e \in ClientOutcomes :
       LET attempted == [model_call EXCEPT !.invoked = Append(@, model_call.modelId),
                                           !.outcomes = Append(@, e)]
       IN  model_call' = IF e.class = "none"
                           THEN [attempted EXCEPT !.pc = "returned",
                                    !.result = "content from " \o model_call.modelId]
                           ELSE WrapperExcept(attempted, e)
  /\ UNCHANGED << serverVars, dedup_call, split_call, html_call, warmup, proc_call >>

ClientNext == ModelInvoke \/ ModelAttempt

ClientSpec == Init /\ [][ClientNext]_vars

(***************************************************************************)
(* send_warmup_request called from several threads at once                 *)
(* (modules/warmup_scheduler.py, lines 48-83).  The counters are updated   *)
(* with `+= 1` on a dictionary entry: a load of the entry, then a store,   *)
(* with no lock around them.                                               *)
(***************************************************************************)
MaxCalls == 2

\* everything but stat_calls
notStatCalls == << jobVars, aws_credentials_valid, call, chunk_call, prio_call, dedup_call,
                  split_call, html_call, warmup, proc_call, model_call, sched >>

\* start() makes its call before it starts the worker thread, and the server
\* serves /warmup/trigger only after initialize_warmup_scheduler returned
StartupCallDone ==
  /\ stat_calls.callers["startup"].calls = 1
  /\ stat_calls.callers["startup"].pc = "idle"

\* lines 48-55: caller c enters send_warmup_request
SendWarmupRequest(c) ==
  /\ stat_calls.callers[c].pc = "idle"
  /\ IF c = "startup" THEN stat_calls.callers[c].calls = 0
     ELSE StartupCallDone /\ stat_calls.callers[c].calls < MaxCalls
  /\ stat_calls' = [stat_calls EXCEPT !.callers[c].pc = "calling",
                                      !.callers[c].calls = @ + 1,
                                      !.attempts = @ + 1]
  /\ UNCHANGED notStatCalls

\* lines 57-62 and 77: _call_bedrock_with_retry returns or raises; the next
\* statement is `self.warmup_stats['total_warmups'] += 1`
WarmupCallReturns(c) ==
  /\ stat_calls.callers[c].pc = "calling"
  /\ \E outcome \in WarmupOutcomes :
       stat_calls' = [stat_calls EXCEPT !.callers[c].pc = "load",
                                        !.callers[c].outcome = outcome,
                                        !.callers[c].key = "total_warmups"]
  /\ UNCHANGED notStatCalls

\* the first half of `+= 1`: the entry is read
StatLoad(c) ==
  /\ stat_calls.callers[c].pc = "load"
  /\ stat_calls' = [stat_calls EXCEPT
                      !.callers[c].pc = "store",
                      !.callers[c].loaded = stat_calls.warmup_stats[stat_calls.callers[c].key]]
  /\ UNCHANGED notStatCalls

\* the second half of `+= 1`: the sum is stored; after total_warmups comes
\* successful_warmups (line 68) or failed_warmups (line 78), then the return
StatStore(c) ==
  /\ stat_calls.callers[c].pc = "store"
  /\ LET me == stat_calls.callers[c]
     IN  stat_calls' =
           [stat_calls EXCEPT
              !.warmup_stats[me.key] = me.loaded + 1,
              !.callers[c].pc = IF me.key = "total_warmups" THEN "load" ELSE "idle",
              !.callers[c].key = IF me.key # "total_warmups" THEN ""
                                 ELSE IF me.outcome = "response" THEN "successful_warmups"
                                 ELSE "failed_warmups"]
  /\ UNCHANGED notStatCalls

StatsNext ==
  \E c \in WarmupCallers :
    \/ SendWarmupRequest(c)
    \/ WarmupCallReturns(c)
    \/ StatLoad(c)
    \/ StatStore(c)

StatsSpec == Init /\ [][StatsNext]_vars

(***************************************************************************)
(* start(), stop() and the warmup_worker threads of one scheduler          *)
(* (modules/warmup_scheduler.py, lines 85-135).  The calls of start() and  *)
(* stop() come one after the other; the worker threads run beside them.    *)
(***************************************************************************)
\* everything but sched
notSched == << jobVars, aws_credentials_valid, call, chunk_call, prio_call, dedup_call,
              split_call, html_call, warmup, proc_call, model_call, stat_calls >>

\* the warmup_worker threads that have been started and have not returned
LiveLoops ==
  { k \in 1..MaxLoops : sched.worker_loops[k].pc \in { "initial_sleep", "interval_sleep" } }

\* start(), lines 107-124: nothing when is_running; otherwise is_running is
\* set, the initial warm-up sent, and a new thread started, which begins
\* with time.sleep(30)
SchedulerStart ==
  /\ sched.stop_pc = "idle"
  /\ sched.start_calls < MaxLoops
  /\ LET k == sched.start_calls + 1
     IN  sched' = IF sched.is_running
                    THEN [sched EXCEPT !.start_calls = k]
                    ELSE [sched EXCEPT !.start_calls = k,
                                       !.is_running = TRUE,
                                       !.warmup_thread = k,
                                       !.worker_loops[k].pc = "initial_sleep"]
  /\ UNCHANGED notSched

\* stop(), lines 126-133: nothing when not running; otherwise is_running is
\* cleared and warmup_thread.join(timeout=5) begins
SchedulerStop ==
  /\ sched.stop_pc = "idle"
  /\ sched.stop_calls < MaxLoops
  /\ sched' = IF ~sched.is_running
                THEN [sched EXCEPT !.stop_calls = @ + 1]
                ELSE [sched EXCEPT !.stop_calls = @ + 1,
                                   !.is_running = FALSE,
                                   !.stop_pc = "joining"]
  /\ UNCHANGED notSched

\* join(timeout=5) returns: the thread has ended, or five seconds have
\* passed while it sleeps (its sleeps are 30 and 900 seconds long)
JoinReturns ==
  /\ sched.stop_pc = "joining"
  /\ sched' = [sched EXCEPT !.stop_pc = "idle"]
  /\ UNCHANGED notSched

\* lines 90-105: thread k wakes from time.sleep and evaluates
\* `while self.is_running`: one more pass and the interval sleep, or return
WorkerWakes(k) ==
  /\ k \in LiveLoops
  /\ sched.worker_loops[k].passes < MaxPasses
  /\ sched' = IF sched.is_running
                THEN [sched EXCEPT !.worker_loops[k].pc = "interval_sleep",
                                   !.worker_loops[k].passes = @ + 1]
                ELSE [sched EXCEPT !.worker_loops[k].pc = "returned"]
  /\ UNCHANGED notSched

LoopsNext ==
  \/ SchedulerStart
  \/ SchedulerStop
  \/ JoinReturns
  \/ \E k \in 1..MaxLoops : WorkerWakes(k)

LoopsSpec == Init /\ [][LoopsNext]_vars

(***************************************************************************)
(* Properties.                                                             *)
(***************************************************************************)
TerminalStatuses == { "completed", "error" }

\* process_document has joined the chunk results on thread t
PastCombine(t) ==
  threads[t].pc \in { "pd_html", "pd_pdf", "pd_save", "pd_c_status", "pd_c_progress",
                      "pd_c_response", "pd_c_pdf", "pd_cleanup" }

\* no consumer holds or can take a job
Quiescent ==
  /\ job_queue = << >>
  /\ ~debug.active
  /\ \A t \in ThreadIds : threads[t].pc \in { "none", "idle", "end" }

\* C1: once a job's status is 'completed' or 'error', no step of any consumer
\* or handler changes it.
C1_TerminalStatusIsFinal ==
  [][\A j \in Jobs :
       job_results[j].status \in TerminalStatuses
         => job_results'[j].status = job_results[j].status]_vars

\* C2: each job taken from the queue is processed exactly once:
\* process_document is never entered twice for one job id, and once every
\* consumer is at rest it has been entered for every job that was dequeued.
C2_ProcessedExactlyOnce ==
  \A j \in Jobs :
    /\ runs[j] <= 1
    /\ (Quiescent /\ taken_by[j] # "nobody") => runs[j] = 1

\* C3: in every state, a job whose status is 'completed' carries a non-empty
\* response and a non-empty pdf_base64.
C3_CompletedCarriesResult ==
  \A j \in Jobs :
    job_results[j].status = "completed"
      => job_results[j].response # "" /\ job_results[j].pdf_base64 # ""

\* for each dispatch position of a document, the index the chunk has in the
\* document
OriginalIndex ==
  [doc \in Documents |->
     IF doc.length >= ChunkSize /\ Len(doc.split) > 2 /\ doc.target_sections # << >>
       THEN prioritized_indices(doc.split, doc.target_sections)
       ELSE [p \in 1..Len(ChunkLists[doc]) |-> p]]

\* the results thread t holds, rearranged into document order
InDocumentOrder(t) ==
  LET order == OriginalIndex[input[threads[t].job]]
      n == Len(threads[t].chunks)
  IN  [i \in 1..n |-> threads[t].processed_chunks[CHOOSE p \in 1..n : order[p] = i]]

\* C4: the aggregated text is the per-chunk results joined in document
\* (original chunk index) order, whatever the dispatch and completion order.
C4_AggregatedInDocumentOrder ==
  \A t \in ThreadIds :
    PastCombine(t)
      => threads[t].combined_response = Join(ParagraphSeparator, InDocumentOrder(t))

\* C5: a job whose chunk inference can only fail with a credential error (the
\* backend rejects the credentials) is aborted: it never reaches 'completed'.
C5_CredentialFailureAborts ==
  ~aws_credentials_valid => \A j \in Jobs : job_results[j].status # "completed"

\* C6: for a document under the single-chunk threshold, the pipeline has one
\* chunk and has made exactly one Bedrock invocation when the chunk stage is
\* over.
C6_OneChunkOneInvocation ==
  \A t \in ThreadIds :
    (PastCombine(t) /\ input[threads[t].job].length < ChunkSize)
      => /\ Len(threads[t].chunks) = 1
         /\ bedrock_calls[threads[t].job] = 1

\* C7: while a job stays in status 'processing', no step lowers its progress.
C7_ProgressNeverDecreases ==
  [][\A j \in Jobs :
       (job_results[j].status = "processing" /\ job_results'[j].status = "processing")
         => job_results'[j].progress >= job_results[j].progress]_vars

\* C8 as stated: at most one job is in status 'processing' at any time,
\* whichever consumer picked the jobs up.
C8_OneJobProcessing ==
  Cardinality({j \in Jobs : job_results[j].status = "processing"}) <= 1

\* the error codes invoke_model raised or "ok", attempt by attempt
OutcomeCodes == [ i \in 1..Len(call.outcomes) |-> call.outcomes[i].message ]

\* C9: a dispatcher call whose backend raises a rate-limit error twice and
\* then succeeds has made three invocations, slept 1s and then 2s, and
\* returns the successful response.
C9_TwoThrottlesThenSuccess ==
  /\ ( /\ call.outcomes # << >>
       /\ Len(call.outcomes) < Retries
       /\ \A i \in 1..Len(call.outcomes) : IsThrottling(call.outcomes[i]) )
     => call.pc \in { "sleep", "invoke" }
  /\ OutcomeCodes = << "ThrottlingException", "ThrottlingException", "ok" >>
     => /\ call.pc = "returned"
        /\ call.result = "response_body"
        /\ call.invocations = 3
        /\ call.sleeps = << 1, 2 >>

\* C10: when an attempt fails with a credential error, the call ends there:
\* the error is raised, no sleep follows it and no further invocation is made.
C10_CredentialErrorNotRetried ==
  (call.outcomes # << >>
     /\ call.outcomes[Len(call.outcomes)].message = "UnrecognizedClientException")
    => /\ call.pc = "raised"
       /\ call.result \in { CredentialsErrorMessage, "UnrecognizedClientException" }
       /\ call.invocations = Len(call.outcomes)
       /\ Len(call.sleeps) = Len(call.outcomes) - 1

\* a call was ended by a credential error on its second attempt, after one
\* backoff sleep
C10_Witness ==
  /\ call.pc = "raised"
  /\ OutcomeCodes = << "ThrottlingException", "UnrecognizedClientException" >>
  /\ call.sleeps = << 1 >>

\* every attempt of the call so far failed with an error the handler does
\* not treat as a credential error
AllAttemptsRetryable ==
  /\ call.outcomes # << >>
  /\ \A i \in 1..Len(call.outcomes) :
       call.outcomes[i] # Ok /\ ~IsCredentialError(call.outcomes[i])

\* C11: a call whose every attempt fails with a retryable error makes at
\* most `retries` invocations, never returns a value, and when it ends it
\* raises the error of its last attempt.
C11_ExhaustedRetriesRaiseLastError ==
  AllAttemptsRetryable
    => /\ call.invocations <= Retries
       /\ call.pc # "returned"
       /\ call.pc = "raised"
            => call.result = call.outcomes[Len(call.outcomes)].message

\* a call ended after three caught failures of different kinds
C11_Witness ==
  /\ call.pc = "raised"
  /\ call.invocations = Retries
  /\ call.outcomes = << [class |-> "Boto3Error", message |-> "ThrottlingException"],
                        [class |-> "Boto3Error", message |-> "ValidationException"],
                        [class |-> "Boto3Error", message |-> "ServiceUnavailable"] >>
  /\ call.result = "ServiceUnavailable"

\* C12: a chunk call whose backend text equals the input chunk when both
\* are lower-cased returns changed = FALSE; changed is TRUE only when the
\* returned text differs from the chunk.
C12_IdenticalResponseUnchanged ==
  (chunk_call.pc = "done" /\ chunk_call.changed)
    => Lower(chunk_call.generated_text) # Lower(chunk_call.chunk)

InOrPastChunks(t) == threads[t].pc = "pd_chunks" \/ PastCombine(t)

\* C14: a chunk whose call fails for a reason other than the credentials (in
\* the pipeline: every chunk, the call of the missing text-generation
\* pipeline fails) is stored as its original text; the other chunks are
\* still processed, and the job is not failed in the chunk stage.
C14_ChunkFailureDegrades ==
  \A t \in ThreadIds :
    /\ InOrPastChunks(t)
         => \A i \in threads[t].collected :
              /\ threads[t].processed_chunks[i] = threads[t].chunks[i]
              /\ ~process_chunk_worker(threads[t].chunks[i]).changed
    /\ PastCombine(t) => threads[t].collected = 1..Len(threads[t].chunks)
    /\ threads[t].pc = "pd_except"
         => \/ threads[t].started = {}
            \/ threads[t].collected = 1..Len(threads[t].chunks)

\* a job of three chunks, all of whose calls failed, is completed with the
\* three original texts
C14_Witness ==
  \E t \in ThreadIds :
    /\ PastCombine(t)
    /\ Len(threads[t].chunks) = 3
    /\ threads[t].processed_chunks = threads[t].chunks
    /\ job_results[threads[t].job].status = "completed"

\* the chunk calls of job j that are running: submitted to an executor
\* thread and not yet returned, over every thread that processes j
InFlight(j) ==
  SumOver([t \in ThreadIds |->
             IF threads[t].pc = "pd_chunks" /\ threads[t].job = j
               THEN Cardinality(threads[t].started \ threads[t].finished)
               ELSE 0],
          ThreadIds)

\* C15: at no time does a job have more than 5 chunk calls in flight.
C15_AtMostFiveInFlight ==
  \A j \in Jobs : InFlight(j) <= ConcurrencyCap

\* C16: every submitted job eventually has status 'completed' or 'error';
\* none stays 'queued' or 'processing' forever.
C16_EveryJobTerminates ==
  \A j \in Jobs :
    (job_results[j].status \in { "queued", "processing" })
      ~> (job_results[j].status \in TerminalStatuses)

\* thread t takes a failure step: an exception of a pipeline stage reaches
\* the handler of process_document, or the handler runs and returns
FailureStep(t) ==
  /\ threads'[t] # threads[t]
  /\ threads[t].pc = "pd_except" \/ threads'[t].pc = "pd_except"

\* C17: a failure of a job's pipeline leaves the job in status 'error' when
\* process_document returns, changes the record and the file of no other
\* job, leaves the queue as it is, and returns the worker to the head of its
\* loop, where it dequeues the next job.
C17_FailureLeavesOtherJobsAlone ==
  [][\A t \in ThreadIds :
       FailureStep(t)
         => /\ \A k \in Jobs \ { threads[t].job } :
                 /\ job_results'[k] = job_results[k]
                 /\ file_exists'[k] = file_exists[k]
                 /\ input'[k] = input[k]
            /\ job_queue' = job_queue
            /\ threads[t].pc = "pd_except"
                 => /\ job_results'[threads[t].job].status = "error"
                    /\ t = Worker => threads'[t].pc = "idle"]_vars

\* the worker's first job failed and its second job was completed
C17_Witness ==
  /\ taken_by = [j \in Jobs |-> "worker"]
  /\ runs = [j \in Jobs |-> 1]
  /\ job_results[1].status = "error"
  /\ job_results[MaxJobs].status = "completed"
  /\ job_results[MaxJobs].pdf_base64 # ""

\* C18: the reconciliation stage never raises to process_document and never
\* touches the job record, whether or not it hit an internal error: the
\* pipeline goes on to PDF generation, and the job can complete with a
\* rendered output.
C18_ReconciliationNeverFails ==
  [][\A t \in ThreadIds :
       (threads[t].pc = "pd_html" /\ threads'[t] # threads[t])
         => /\ threads'[t].pc = "pd_pdf"
            /\ job_results'[threads[t].job] = job_results[threads[t].job]]_vars

\* a job whose reconciliation hit an internal error is completed and has
\* its rendered output
C18_Witness ==
  \E t \in ThreadIds :
    /\ threads[t].pc = "pd_cleanup"
    /\ threads[t].html_error
    /\ job_results[threads[t].job].status = "completed"
    /\ job_results[threads[t].job].pdf_base64 # ""

\* C19: once a job has a terminal status, its uploaded file and every
\* rendered-output file written for it are eventually off the disk.
C19_ArtifactsEventuallyDeleted ==
  \A j \in Jobs :
    (job_results[j].status \in TerminalStatuses)
      ~> (~file_exists[j] /\ pdf_files[j] = 0)

\* how often the text x occurs in the list seq
CountIn(seq, x) == Cardinality({ i \in 1..Len(seq) : seq[i] = x })

\* C20: prioritize_chunks returns a permutation of its input: the same
\* number of chunks and every chunk text as often as in the input.
C20_PrioritizeIsPermutation ==
  prio_call.pc = "done"
    => /\ Len(prio_call.result) = Len(prio_call.chunks)
       /\ \A x \in ChunkTexts :
            CountIn(prio_call.result, x) = CountIn(prio_call.chunks, x)

\* a call that moved the last chunk to the front
C20_Witness ==
  /\ prio_call.pc = "done"
  /\ prio_call.chunks = << "intro", "Terms here", "pay ABC" >>
  /\ prio_call.targets = << "ABC" >>
  /\ prio_call.result = << "pay ABC", "Terms here", "intro" >>

\* C21: the de-duplication pass is idempotent: run on its own output it
\* returns the same list, same elements in the same order.
C21_DedupIdempotent ==
  dedup_call.pc = "twice" => dedup_call.again = dedup_call.result

\* a pass that removed something and kept at least two targets was repeated
C21_Witness ==
  /\ dedup_call.pc = "twice"
  /\ Len(dedup_call.result) >= 2
  /\ Len(dedup_call.result) < Len(dedup_call.targets)

\* C22: the pass drops a target only when it is a substring of a retained
\* target: every removed target is contained in some target of the output
\* (so a target containing another is never dropped in favour of the
\* shorter one).
C22_DroppedOnlyIfContained ==
  dedup_call.pc # "idle" =>
    \A i \in 1..Len(dedup_call.targets) :
       \E k \in 1..Len(dedup_call.result) :
          Contains(dedup_call.targets[i], dedup_call.result[k])

\* the chunks are in index order: each starts no earlier than the one before
ChunksInIndexOrder ==
  \A c \in 1..(Len(split_call.chunks) - 1) :
     Head(split_call.chunks[c]) <= Head(split_call.chunks[c + 1])

\* C23: chunks reassembled in index order, each returned unchanged by
\* inference, reproduce the document's flat text exactly: no gap and no
\* overlap region twice.
C23_ReassemblyReproducesDocument ==
  (split_call.pc = "combined" /\ ChunksInIndexOrder) =>
     split_call.combined_response = ParagraphRange(1, Len(split_call.paragraphs))

\* the call took the plain-text path: the cleaned response is not HTML
PlainTextPath == ~IsHtmlResponse(CleanResponse(html_call.model_response))

\* the aggregated text is shorter than 30% of the text of the original markup
ShorterThan30Percent ==
  10 * Len(html_call.model_response) < 3 * Len(get_text(html_call.html_content))

\* C24: on the plain-text path, an aggregated text shorter than 30% of the
\* text extracted from the original markup makes process_html_with_model
\* return the original markup unchanged.
C24_ShortTextKeepsOriginalMarkup ==
  (html_call.pc # "idle" /\ PlainTextPath /\ ShorterThan30Percent) =>
     (html_call.pc = "done" /\ html_call.result = html_call.html_content)

\* a non-empty plain text under the threshold was reconciled without an
\* internal error and the original markup came back
C24_Witness ==
  /\ html_call.pc = "done"
  /\ ~html_call.internal_error
  /\ PlainTextPath
  /\ ShorterThan30Percent
  /\ Strip(html_call.model_response) # ""
  /\ html_call.result = html_call.html_content

\* the step is a start() call
StartStep == warmup'.start_calls = warmup.start_calls + 1

\* the step is a periodic check of the worker loop
CheckStep == warmup.worker.pc # "none" /\ warmup'.worker # warmup.worker

\* the step is a manual trigger
TriggerStep == warmup'.trigger_calls = warmup.trigger_calls + 1

\* the step is a job submission
SubmitStep == Len(job_queue') = Len(job_queue) + 1

\* the step issued one warm-up call
OneWarmupIssued ==
  warmup'.warmup_stats.total_warmups = warmup.warmup_stats.total_warmups + 1

\* C25: starting the scheduler issues exactly one warm-up call at once,
\* however recent the last real request is, and starts the worker; start()
\* on a running scheduler issues no warm-up and starts no second worker.
C25_StartWarmsExactlyOnce ==
  [][StartStep =>
       IF warmup.is_running
         THEN /\ warmup'.warmup_stats = warmup.warmup_stats
              /\ warmup'.worker_threads = warmup.worker_threads
              /\ warmup'.worker = warmup.worker
         ELSE /\ OneWarmupIssued
              /\ warmup'.last_send.by = "start"
              /\ warmup'.is_running
              /\ warmup'.worker_threads = warmup.worker_threads + 1]_vars

\* start() was called a second time: still one warm-up, issued by the first
\* start with no time elapsed since the last real request, and one worker
C25_Witness ==
  /\ warmup.start_calls = 2
  /\ warmup.is_running
  /\ warmup.warmup_stats.total_warmups = 1
  /\ warmup.last_send.by = "start"
  /\ warmup.worker_threads = 1

C27_WarmupFailureRecordedNotRaised ==
  [][LET before == warmup.warmup_stats
         after  == warmup'.warmup_stats
         sends  == \/ TriggerStep
                   \/ (StartStep /\ ~warmup.is_running)
                   \/ (CheckStep /\ warmup'.last_check.sent)
     IN  /\ ~warmup'.last_send.raised
         /\ sends =>
              /\ after.total_warmups = before.total_warmups + 1
              /\ \/ /\ warmup'.last_send.returned
                    /\ after.successful_warmups = before.successful_warmups + 1
                    /\ after.failed_warmups = before.failed_warmups
                    /\ after.last_warmup_success = "True"
                 \/ /\ ~warmup'.last_send.returned
                    /\ after.failed_warmups = before.failed_warmups + 1
                    /\ after.successful_warmups = before.successful_warmups
                    /\ after.last_warmup_success = "False"
         /\ CheckStep =>
              /\ warmup'.is_running
              /\ warmup'.worker = [ pc |-> "interval_sleep",
                                    wake_at |-> warmup.now + warmup_interval ]]_vars

\* a warm-up of the worker loop failed and was recorded, and the loop made
\* a later check that succeeded
C27_Witness ==
  /\ warmup.warmup_stats.failed_warmups >= 1
  /\ warmup.warmup_stats.last_warmup_success = "True"
  /\ warmup.last_send = [ by |-> "worker", returned |-> TRUE, raised |-> FALSE ]
  /\ warmup.trigger_calls = 0
  /\ warmup.warmup_stats.successful_warmups = 2
  /\ warmup.worker.pc = "interval_sleep"

\* the document was extracted, every backend call answered with a useful
\* response, and rendering and saving went through
NothingFailed ==
  /\ proc_call.extraction = "html"
  /\ \A i \in 1..Len(proc_call.outcomes) : proc_call.outcomes[i] = "response"
  /\ proc_call.exception = ""

\* C28: process_with_bedrock never raises to its caller: whatever fails, it
\* returns a result with response, pdf_base64 and pdf_path or the error
\* value {'error': True, 'message': ...}; with a responsive backend and a
\* valid document the value returned carries no error flag.
C28_ProcessWithBedrockNeverRaises ==
  /\ ~proc_call.raised
  /\ proc_call.pc # "raised"
  /\ proc_call.pc = "returned" =>
       /\ \/ /\ proc_call.result.keys = { "response", "pdf_base64", "pdf_path" }
             /\ ~proc_call.result.error
          \/ /\ proc_call.result.keys = { "error", "message" }
             /\ proc_call.result.error
             /\ proc_call.result.message # ""
       /\ proc_call.exception # "" => proc_call.result.error
       /\ NothingFailed => ~proc_call.result.error

\* a call whose rendering failed after inference had answered returned the
\* error value
C28_Witness ==
  /\ proc_call.pc = "returned"
  /\ proc_call.exception = "renderer error"
  /\ Len(proc_call.chunks) = 2
  /\ \A i \in 1..2 : proc_call.outcomes[i] = "response"
  /\ proc_call.result.error

\* the backend reported at attempt k that the model is not ready
NotReadyAt(k) ==
  /\ Len(model_call.outcomes) >= k
  /\ model_call.outcomes[k].type = "ModelNotReadyException"

\* C29: when the primary, imported model reports it is not ready, the call
\* is made again with the fallback model id; a successful fallback call
\* returns its response, and a fallback model that is not ready either
\* makes the call fail without another attempt.
C29_NotReadyFallsBackOnce ==
  (/\ model_call.pc \in { "returned", "raised" }
   /\ model_call.primary = ImportedModel
   /\ NotReadyAt(1)) =>
     /\ Len(model_call.invoked) >= 2
     /\ model_call.invoked[2] = FallbackModel
     /\ model_call.outcomes[2].class = "none" =>
          /\ model_call.pc = "returned"
          /\ model_call.result = "content from " \o FallbackModel
     /\ NotReadyAt(2) =>
          /\ model_call.pc = "raised"
          /\ Len(model_call.invoked) = 2

\* `target_lower in chunk_lower` for some target of the call
HasTarget(chunk, targets) ==
  \E k \in 1..Len(targets) : Contains(Lower(targets[k]), Lower(chunk))

\* `target_lower in chunk_lower` for every target of the call
HasEveryTarget(chunk, targets) ==
  \A k \in 1..Len(targets) : Contains(Lower(targets[k]), Lower(chunk))

\* the points the structure markers add to a chunk's score
MarkerCount(chunk) ==
  Cardinality({ m \in 1..Len(structure_markers) :
                  Contains(structure_markers[m], Lower(chunk)) })

\* C30 as stated: every chunk that contains a target scores strictly higher
\* than every chunk that contains none, and precedes it in the result.
C30_TargetChunksScoreHigher ==
  prio_call.pc = "done" =>
    \A p, q \in 1..Len(prio_call.result) :
      (/\ HasTarget(prio_call.result[p], prio_call.targets)
       /\ ~HasTarget(prio_call.result[q], prio_call.targets)) =>
         /\ ChunkScore(prio_call.result[p], prio_call.targets)
              > ChunkScore(prio_call.result[q], prio_call.targets)
         /\ p < q

\* C30, amended: for a non-empty target list, a chunk that contains every
\* target scores strictly higher than, and precedes, every chunk that
\* contains no target and names no more structure markers than it does.
C30_TargetChunksScoreHigherAmongEqualMarkers ==
  (prio_call.pc = "done" /\ prio_call.targets # << >>) =>
    \A p, q \in 1..Len(prio_call.result) :
      (/\ HasEveryTarget(prio_call.result[p], prio_call.targets)
       /\ ~HasTarget(prio_call.result[q], prio_call.targets)
       /\ MarkerCount(prio_call.result[q]) <= MarkerCount(prio_call.result[p])) =>
         /\ ChunkScore(prio_call.result[p], prio_call.targets)
              > ChunkScore(prio_call.result[q], prio_call.targets)
         /\ p < q

\* a call that moved a chunk holding every target in front of a chunk
\* without any, which came first in the input
C30_Witness ==
  /\ prio_call.pc = "done"
  /\ prio_call.targets # << >>
  /\ Len(prio_call.chunks) = 2
  /\ ~HasTarget(prio_call.chunks[1], prio_call.targets)
  /\ HasEveryTarget(prio_call.chunks[2], prio_call.targets)
  /\ MarkerCount(prio_call.chunks[1]) <= MarkerCount(prio_call.chunks[2])
  /\ prio_call.result = << prio_call.chunks[2], prio_call.chunks[1] >>

\* the as_completed loop of thread t stored one more result in this step
CollectStep(t) ==
  /\ threads[t].pc = "pd_chunks"
  /\ threads'[t].collected # threads[t].collected

\* C31: each completed chunk sets the job's progress to
\* 40 + floor(30 * completed / total): a value within 40..70 that grows with
\* the number of completed chunks and is 70 exactly when all have completed.
C31_ChunkProgressLinear ==
  [][\A t \in ThreadIds :
       CollectStep(t) =>
         LET completed == Cardinality(threads'[t].collected)
             total     == Len(threads[t].chunks)
             progress  == job_results'[threads[t].job].progress
         IN  /\ completed = Cardinality(threads[t].collected) + 1
             /\ 30 * completed - total < (progress - 40) * total
             /\ (progress - 40) * total <= 30 * completed
             /\ progress \in 40..70
             /\ progress = 70 <=> completed = total]_vars

\* five of six chunks are in and the progress stands at 65
C31_Witness ==
  \E t \in ThreadIds :
    /\ threads[t].pc = "pd_chunks"
    /\ Len(threads[t].chunks) = 6
    /\ Cardinality(threads[t].collected) = 5
    /\ job_results[threads[t].job].progress = 65

\* C32: every job the /debug/process_queue handler dequeues is processed by
\* the background thread started for it: when that thread calls
\* process_document, it passes the job id it was started for.
C32_BackgroundThreadRunsItsJob ==
  [][\A j \in Jobs :
       (/\ threads[Background(j)].pc = "bg_start"
        /\ threads'[Background(j)].pc = "pd_start")
         => /\ threads'[Background(j)].job = j
            /\ runs'[j] = 1]_vars

\* C33: the backup thread a submission starts processes the job that
\* submission added, and it records an error only on the record of the job
\* it dequeued: when it dequeued none, it changes no record.
C33_BackupPathProcessesItsOwnJob ==
  [][\A j \in Jobs :
       threads[Immediate(j)].pc = "imm_get" =>
         /\ threads'[Immediate(j)].pc = "pd_start" => threads'[Immediate(j)].job = j
         /\ threads'[Immediate(j)].pc = "end" => job_results' = job_results]_vars

\* C34: once every send_warmup_request call has finished, total_warmups is
\* the number of warm-up attempts made and is the sum of successful_warmups
\* and failed_warmups.
C34_WarmupCountersConsistent ==
  (\A c \in WarmupCallers : stat_calls.callers[c].pc = "idle") =>
    /\ stat_calls.warmup_stats.total_warmups = stat_calls.attempts
    /\ stat_calls.warmup_stats.total_warmups =
         stat_calls.warmup_stats.successful_warmups
           + stat_calls.warmup_stats.failed_warmups

\* C35: when the primary rendering raised and the fallback renderer
\* succeeded, the rendering stage leaves the job in progress and hands it to
\* the save stage, whose completion steps set status 'completed' and store
\* the rendered output; the rendering stage sets status 'error' only when
\* both renderers failed.
C35_FallbackRenderingCompletesJob ==
  [][\A t \in ThreadIds :
       LET j == threads[t].job
       IN  /\ (threads[t].pc = "pd_pdf" /\ threads'[t].pc # "pd_pdf") =>
                /\ job_results'[j].status = "error" <=> threads'[t].rendered = "failed"
                /\ threads'[t].rendered = "fallback" =>
                     /\ threads'[t].pc = "pd_save"
                     /\ job_results'[j].status = "processing"
           /\ (threads[t].rendered = "fallback" /\ threads'[t].pc # threads[t].pc) =>
                /\ threads[t].pc = "pd_save" => threads'[t].pc \in { "pd_c_status", "pd_except" }
                /\ threads[t].pc = "pd_c_status" => job_results'[j].status = "completed"
                /\ threads[t].pc = "pd_c_pdf" => job_results'[j].pdf_base64 # ""]_vars

\* a job rendered by the fallback is completed and carries its PDF
C35_Witness ==
  \E t \in ThreadIds :
    /\ threads[t].pc = "pd_cleanup"
    /\ threads[t].rendered = "fallback"
    /\ job_results[threads[t].job].status = "completed"
    /\ job_results[threads[t].job].pdf_base64 # ""

\* C36: at most one warmup_worker loop of a scheduler is alive at any time,
\* over any sequence of start() and stop() calls.
C36_AtMostOneWorkerLoop ==
  Cardinality(LiveLoops) <= 1

\* C37: every job id that is on the queue, that a consumer has dequeued or
\* that a thread runs process_document for has its record in the job map,
\* with a status and a progress value.
C37_QueuedJobsHaveRecords ==
  \A j \in Jobs :
    (\/ InQueue(j)
     \/ taken_by[j] # "nobody"
     \/ \E t \in ThreadIds : threads[t].job = j) =>
       /\ job_results[j].status \in { "queued", "processing", "completed", "error" }
       /\ job_results[j].progress \in 0..100

\* process_document is entered for a dequeued job while the handler of the
\* next submission stands between its entry and its put
C37_Witness ==
  \E j, k \in Jobs :
    /\ \E t \in ThreadIds : threads[t].pc = "pd_start" /\ threads[t].job = j
    /\ taken_by[j] # "nobody"
    /\ job_results[j].status = "queued"
    /\ EntryCreated(k)

\* C38: in every state, a job whose progress is 100 has status 'completed'
\* or 'error'.
C38_FullProgressOnlyWhenTerminal ==
  \A j \in Jobs :
    job_results[j].progress = 100 => job_results[j].status \in TerminalStatuses

\* C39: the retry wrapper returns or raises after a bounded number of
\* invocations of the wrapped call: at most three of them are throttled, the
\* model id is switched at most once, and a call that has made four
\* invocations has ended; a call that has not ended can make its next attempt.
C39_WrapperTerminates ==
  LET n == Len(model_call.invoked)
  IN  /\ n <= max_retries + 1
      /\ Cardinality({ i \in 1..n :
                         model_call.outcomes[i].type = "ThrottlingException" }) <= max_retries
      /\ Cardinality({ i \in 2..n :
                         model_call.invoked[i] # model_call.invoked[i - 1] }) <= 1
      /\ n = max_retries + 1 => model_call.pc \in { "returned", "raised" }
      /\ model_call.pc = "loop" => model_call.retry_count < max_retries

\* a call that returned at its fourth invocation, after it had switched to
\* the fallback model
C39_Witness ==
  /\ model_call.pc = "returned"
  /\ Len(model_call.invoked) = 4
  /\ model_call.invoked[1] = ImportedModel
  /\ model_call.invoked[4] = FallbackModel

\* C40: each completed chunk fills one slot of the result list that was
\* still None and leaves the others alone, and the list handed to the
\* aggregation has one entry per chunk and no None slot.
C40_EveryChunkHasOneResult ==
  [][\A t \in ThreadIds :
       LET n      == Len(threads[t].chunks)
           before == threads[t].processed_chunks
           after  == threads'[t].processed_chunks
       IN  /\ CollectStep(t) =>
                \E i \in 1..n :
                  /\ before[i] = "None" /\ after[i] # "None"
                  /\ \A k \in (1..n) \ {i} : after[k] = before[k]
           /\ (threads[t].pc = "pd_chunks" /\ threads'[t].pc = "pd_html") =>
                /\ Len(before) = n
                /\ \A i \in 1..n : before[i] # "None"
                /\ after = before]_vars

\* the six results of a six-chunk document have been handed to the
\* aggregation
C40_Witness ==
  \E t \in ThreadIds :
    /\ threads[t].pc = "pd_html"
    /\ Len(threads[t].chunks) = 6
    /\ Len(threads[t].processed_chunks) = 6
    /\ \A i \in 1..6 : threads[t].processed_chunks[i] = threads[t].chunks[i]

====
